---- MODULE Spec2Model ----
(***************************************************************************)
(* Model of the quality checkers of Video_Processor:                       *)
(*   scripts/quality_check.py            (Python checker, self-exclusion)  *)
(*   tools/matlab_utilities/scripts/matlab_quality_check.py                *)
(*                                                                         *)
(* Source text is modelled over a finite alphabet of concrete lines; a     *)
(* regular expression or substring test of the code is modelled by the     *)
(* set of alphabet lines it matches.  File-system behaviour (pathlib of    *)
(* CPython 3.10-3.12) is modelled by the "kind" of a candidate path.       *)
(***************************************************************************)
EXTENDS Integers, Sequences, FiniteSets, TLC

VARIABLES
    prog,            \* which entry point this behaviour runs
    pc,              \* position inside the entry point
    file,            \* SpecFile: the candidate path handed to the functions
    excl,            \* SpecFile: outcome of should_exclude_file(file)
    cf,              \* SpecFile: outcome of check_file(file)
    direct,          \* SpecFile: outcomes of the rule functions called directly
    cq,              \* SpecRuleSets: outcomes of the functions of code_quality_check.py
    python_files,    \* main(): candidate list (after rglob)
    idx,             \* main(): loop position
    kept,            \* main(): the list a list comprehension is building
    all_issues,      \* main(): list of <<position, issues>>
    checked,         \* main(): positions whose check_file call returned
    argv,            \* main(): the file arguments of the command line
    traversed,       \* main(): the directory tree has been walked (rglob)
    exit_code,       \* process exit code (-1: still running)
    uncaught,        \* exception that left the entry point ("none" if none)
    project_root_exists, \* MATLAB checker: --project-root names a directory
    m_files,         \* MATLAB checker: the *.m files under matlab/
    config_exists,   \* MATLAB checker: matlab/matlab_quality_config.m exists
    cmd_outcome,     \* MATLAB checker: what each candidate command does
    strict,          \* MATLAB checker: --strict
    attempted,       \* MATLAB checker: commands run so far, in order
    matlab_results,  \* MATLAB checker: result of run_matlab_quality_checks
    results,         \* MATLAB checker: self.results, the report
    m_lines,         \* _analyze_matlab_file: the lines of the file
    m_i,             \* _analyze_matlab_file: number of lines scanned
    nesting_level,   \* _analyze_matlab_file: nesting counter
    in_function,     \* _analyze_matlab_file: inside-function flag
    m_issues,        \* _analyze_matlab_file: issues found so far
    p_lines,         \* SpecPass: the lines handed to check_banned_patterns
    p_result,        \* SpecPass: outcome of the two check_banned_patterns
    p_verdict,       \* SpecPass: outcome of the two is_legitimate_pass_context
    a_files,         \* scientific_auditor main(): files found by rglob
    a_idx,           \* scientific_auditor main(): loop position
    RISKS,           \* scientific_auditor: the module-level risk list
    runs             \* reports of the runs completed in this process

vars == <<prog, pc, file, excl, cf, direct, cq, python_files, idx, kept, all_issues,
          checked, argv, traversed, exit_code, uncaught, project_root_exists, m_files,
          config_exists, cmd_outcome,
          strict, attempted, matlab_results, results, m_lines, m_i,
          nesting_level, in_function, m_issues, p_lines, p_result, p_verdict,
          a_files, a_idx, RISKS, runs>>

(***************************************************************************)
(* Bounds of the model.                                                    *)
(***************************************************************************)
MaxLines == 2        \* lines of a Python file handed to the file functions
MaxFiles == 2        \* candidate files of one scan
MaxMFiles == 2       \* *.m files of one MATLAB run
MaxScanLines == 4    \* lines of the *.m file scanned line by line
MaxPassLines == 4    \* lines handed to check_banned_patterns around a pass
MaxRuleLines == 3    \* lines of a *.m file made of magic-number and clear lines
MaxRuns == 2         \* runs of one checker over the same tree
MaxGap == 10         \* plain lines around the context lines above a pass
MaxStmts == 2        \* statements of a module handed to the numeric-risk walker

(***************************************************************************)
(* Program constants.                                                      *)
(***************************************************************************)
WINDOW == 4096       \* f.read(4096) in _check_content_signature

Max(a, b) == IF a >= b THEN a ELSE b
Min(a, b) == IF a <= b THEN a ELSE b

RECURSIVE SeqsUpTo(_, _)
SeqsUpTo(S, n) ==
    IF n = 0 THEN {<<>>}
    ELSE LET shorter == SeqsUpTo(S, n - 1)
         IN  shorter \cup {Append(s, x) : s \in {t \in shorter : Len(t) = n - 1}, x \in S}

(***************************************************************************)
(* Python source lines.                                                    *)
(***************************************************************************)
L_PLAIN  == "x = 1"
L_TODO   == "# TODO"
L_MAGIC  == "g = 9.81"
L_MARKER == "# QUALITY_CHECK_SCRIPT_V1"
L_TABLE  == "BANNED_PATTERNS = ["
L_TITLE  == "# Quality check script"
L_DEF    == "def should_exclude_file(p): return p"
L_PAD    == "#### (a comment line of 4096 characters)"
L_DEEP   == "x = ----1 (100000 nested unary minus signs)"
L_DEF_HINT == "def area(r) -> float: return r"
L_INIT     == "def __init__(self): self.x = r"

PyLines == {L_PLAIN, L_TODO, L_MAGIC, L_MARKER, L_TABLE, L_TITLE, L_DEF, L_PAD, L_DEEP}

\* Number of characters of a line; the two long lines are named, not spelled out.
LineLen(l) ==
    CASE l = L_PAD  -> 4096
      [] l = L_DEEP -> 100005
      [] OTHER      -> Len(l)

\* Offset of the first character of line k in "\n".join(lines).
RECURSIVE Offset(_, _)
Offset(lines, k) == IF k = 1 THEN 0 ELSE Offset(lines, k - 1) + LineLen(lines[k - 1]) + 1

_QUALITY_CHECK_SCRIPT_MARKER == "QUALITY_CHECK_SCRIPT_V1"
T_TABLE == "BANNED_PATTERNS = ["
T_TITLE == "Quality check script"
T_DEFEX == "def should_exclude_file"

\* The alphabet line that holds a token, and the column where the token starts.
TokLine(tok) ==
    CASE tok = _QUALITY_CHECK_SCRIPT_MARKER -> L_MARKER
      [] tok = T_TABLE -> L_TABLE
      [] tok = T_TITLE -> L_TITLE
      [] tok = T_DEFEX -> L_DEF
TokCol(tok) ==
    CASE tok = _QUALITY_CHECK_SCRIPT_MARKER -> 2
      [] tok = T_TABLE -> 0
      [] tok = T_TITLE -> 2
      [] tok = T_DEFEX -> 0

\* tok in "\n".join(lines)
Contains(lines, tok) == \E k \in 1..Len(lines) : lines[k] = TokLine(tok)

\* tok in "\n".join(lines)[:n]: the whole token lies in the first n characters.
ContainsWithin(lines, tok, n) ==
    \E k \in 1..Len(lines) :
        /\ lines[k] = TokLine(tok)
        /\ Offset(lines, k) + TokCol(tok) + Len(tok) <= n

(***************************************************************************)
(* Candidate paths.  kind is what the file system does with the path:      *)
(*   regular     a readable UTF-8 file                                     *)
(*   undecodable a readable file that is not valid UTF-8                   *)
(*   scriptlink  a link to the analyzer itself under another name          *)
(*   missing     no such file (also a dangling symbolic link)              *)
(*   vanishing   deleted between exists() and samefile()                   *)
(*   unreadable  stat works, open() is refused                             *)
(*   noperm      stat is refused (EACCES): Path.exists() raises            *)
(*   symloop     a symbolic link loop: Path.resolve() raises RuntimeError  *)
(***************************************************************************)
_SCRIPT_NAME == "quality_check.py"
_EXCLUDED_NAMES == {"quality_check_script.py", "quality_check.py"}
Names == {"quality_check.py", "mod.py", "code_quality_check.py"}

\* The analyzer's own first lines (title on line 1, marker on line 3).
ScriptLines == <<L_TITLE, L_MARKER>>

ContentKinds == {"regular", "undecodable"}
NoContentKinds == {"missing", "vanishing", "unreadable", "noperm", "symloop"}

Files ==
    [name : Names, kind : ContentKinds, lines : SeqsUpTo(PyLines, MaxLines)]
    \cup [name : Names, kind : NoContentKinds, lines : {<<>>}]
    \cup [name : Names, kind : {"scriptlink"}, lines : {ScriptLines}]

NoExc == "none"
Ret(v) == [ret |-> v, exc |-> NoExc]
Raise(e) == [ret |-> FALSE, exc |-> e]

_check_filename(f) == f.name \in (_EXCLUDED_NAMES \cup {_SCRIPT_NAME})

\* except (OSError, ValueError, AttributeError) of _check_absolute_path
PathCheckCaught == {"OSError", "ValueError", "AttributeError"}

\* What the body of the try block of _check_absolute_path does.
PathCheckBody(f) ==
    CASE f.kind = "symloop"    -> Raise("RuntimeError")   \* filepath.resolve()
      [] f.kind = "scriptlink" -> Ret(TRUE)                \* file_abs == _SCRIPT_PATH
      [] f.kind = "noperm"     -> Raise("OSError")         \* file_abs.exists()
      [] f.kind = "vanishing"  -> Raise("OSError")         \* _SCRIPT_PATH.samefile(file_abs)
      [] OTHER                 -> Ret(FALSE)

_check_absolute_path(f) ==
    LET b == PathCheckBody(f)
    IN  IF b.exc \in PathCheckCaught THEN Ret(FALSE) ELSE b

\* Mutant: the marker alone no longer decides; the compound test is required.
SignatureIn_compound_only(lines) ==
    /\ ContainsWithin(lines, T_TABLE, WINDOW)
    /\ ContainsWithin(lines, T_TITLE, WINDOW)
    /\ ContainsWithin(lines, T_DEFEX, WINDOW)

\* The signature test on the window read from the file.
SignatureIn(lines) ==
    \/ ContainsWithin(lines, _QUALITY_CHECK_SCRIPT_MARKER, WINDOW)
    \/ /\ ContainsWithin(lines, T_TABLE, WINDOW)
       /\ ContainsWithin(lines, T_TITLE, WINDOW)
       /\ ContainsWithin(lines, T_DEFEX, WINDOW)

_check_content_signature(f) ==
    CASE f.kind = "noperm"                  -> Raise("PermissionError")  \* filepath.exists()
      [] f.kind \in {"missing", "vanishing"} -> Ret(FALSE)               \* not filepath.exists()
      [] f.kind = "unreadable"              -> Ret(FALSE)                \* open(): OSError, caught
      [] OTHER                              -> Ret(SignatureIn(f.lines))

\* Mutant: every check is evaluated before the results are combined.
should_exclude_file_eager(f) ==
    LET p == _check_absolute_path(f)
        c == _check_content_signature(f)
    IN  [ret |-> _check_filename(f) \/ p.ret \/ c.ret,
         exc |-> IF p.exc # NoExc THEN p.exc ELSE c.exc,
         calls |-> <<"filename", "path", "content">>]

\* calls: the checks evaluated, in evaluation order.
should_exclude_file(f) ==
    IF _check_filename(f)
    THEN [ret |-> TRUE, exc |-> NoExc, calls |-> <<"filename">>]
    ELSE LET p == _check_absolute_path(f)
         IN  IF p.exc # NoExc \/ p.ret
             THEN [ret |-> p.ret, exc |-> p.exc, calls |-> <<"filename", "path">>]
             ELSE LET c == _check_content_signature(f)
                  IN  [ret |-> c.ret, exc |-> c.exc,
                       calls |-> <<"filename", "path", "content">>]

(***************************************************************************)
(* The rule functions of scripts/quality_check.py.  An issue is            *)
(* [line, msg]; the snippet of the code's triple is the line's own text.   *)
(***************************************************************************)
Issue(n, m) == [line |-> n, msg |-> m]

\* The lines check_banned_patterns skips as rule-table declarations.
IsPatternDefinition(l) == l = L_TABLE            \* ^\s*BANNED_PATTERNS\s*=

\* Messages of the BANNED_PATTERNS entries that match the line, in table order.
BannedMessages(l) == IF l = L_TODO THEN <<"TODO placeholder found">> ELSE <<>>

\* Messages of the MAGIC_NUMBERS entries that match the line before its '#'.
MagicMessages(l) == IF l = L_MAGIC THEN <<"Define GRAVITY_M_S2 constant">> ELSE <<>>

AtLine(n, msgs) == [j \in 1..Len(msgs) |-> Issue(n, msgs[j])]

(***************************************************************************)
(* Lines around a pass statement, and the string tests the pass-context    *)
(* helpers apply to a stripped line.                                       *)
(***************************************************************************)
P_CLASS   == "class A:"
P_DEF     == "def f():"
P_DEF_EXC == "def handle_exception():"
P_PASS    == "    pass"
P_TRY     == "try:"
P_EXCEPT  == "except ImportError:"
P_WITH    == "with open(p) as f:"

P_EXC_NAME  == "x = exception_count"            \* holds "except", no trailing colon
P_WITH_TAIL == "with open(p) as f:  # scope"    \* starts with "with ", no trailing colon
PassLines == {P_CLASS, P_DEF, P_DEF_EXC, P_PASS, P_TRY, P_EXCEPT, P_WITH, L_PLAIN}

\* re.match(r"^\s*pass\s*$", line); line.strip() == "pass"
IsPass(l) == l = P_PASS
\* prev_line.startswith("class ")
StartsClass(l) == l = P_CLASS
\* prev_line.startswith("def ")
StartsDef(l) == l \in {P_DEF, P_DEF_EXC, L_DEF, L_DEF_HINT, L_INIT}
\* prev_line.endswith(":") and any(keyword in prev_line for keyword in
\* ["try:", "except", "finally:", "with ", "if __name__"])
IsBlockKeywordLine(l) == l \in {P_TRY, P_EXCEPT, P_WITH, P_DEF_EXC}
\* "try:" in prev_line or "except" in prev_line
HasTryOrExcept(l) == l \in {P_TRY, P_EXCEPT, P_DEF_EXC, P_EXC_NAME}
\* prev_line.startswith("with ")
StartsWith(l) == l \in {P_WITH, P_WITH_TAIL}

\* range(line_num - 1, max(0, line_num - 10), -1): the indices i of the
\* lines[i - 1] the class loop can read.
ClassRange(line_num) == (Max(0, line_num - 10) + 1)..(line_num - 1)

\* range(line_num - 1, max(0, line_num - 5), -1)
TryExceptRange(line_num) == (Max(0, line_num - 5) + 1)..(line_num - 1)

\* range(line_num - 1, max(0, line_num - 3), -1)
ContextManagerRange(line_num) == (Max(0, line_num - 3) + 1)..(line_num - 1)

\* for i in range(line_num - 1, max(0, line_num - 10), -1), from i down.
RECURSIVE ClassScan(_, _, _)
ClassScan(lines, i, stop) ==
    IF i <= stop THEN FALSE
    ELSE IF StartsClass(lines[i]) THEN TRUE
    ELSE IF StartsDef(lines[i]) THEN FALSE
    ELSE IF IsBlockKeywordLine(lines[i]) THEN TRUE
    ELSE ClassScan(lines, i - 1, stop)

_is_in_class_definition(lines, line_num) ==
    ClassScan(lines, line_num - 1, Max(0, line_num - 10))

_is_in_try_except_block(lines, line_num) ==
    \E i \in TryExceptRange(line_num) : HasTryOrExcept(lines[i])

_is_in_context_manager(lines, line_num) ==
    \E i \in ContextManagerRange(line_num) : StartsWith(lines[i])

is_legitimate_pass_context(lines, line_num) ==
    /\ line_num > 0 /\ line_num <= Len(lines)
    /\ IsPass(lines[line_num])
    /\ \/ _is_in_class_definition(lines, line_num)
       \/ _is_in_try_except_block(lines, line_num)
       \/ _is_in_context_manager(lines, line_num)

\* The special handling of pass statements in check_banned_patterns.
PassIssues(lines, k) ==
    IF IsPass(lines[k]) /\ ~is_legitimate_pass_context(lines, k)
    THEN <<Issue(k, "Empty pass statement - consider adding logic or comment")>>
    ELSE <<>>

RECURSIVE BannedFrom(_, _)
BannedFrom(lines, k) ==
    IF k > Len(lines) THEN <<>>
    ELSE (IF IsPatternDefinition(lines[k]) THEN <<>>
          ELSE AtLine(k, BannedMessages(lines[k])) \o PassIssues(lines, k))
         \o BannedFrom(lines, k + 1)

RECURSIVE MagicFrom(_, _)
MagicFrom(lines, k) ==
    IF k > Len(lines) THEN <<>>
    ELSE AtLine(k, MagicMessages(lines[k])) \o MagicFrom(lines, k + 1)

\* filepath is not read by the function (noqa: ARG001).
check_banned_patterns(lines, filepath, is_excluded) ==
    IF /\ lines # <<>>
       /\ \/ Contains(lines, _QUALITY_CHECK_SCRIPT_MARKER)
          \/ Contains(lines, T_TABLE) /\ Contains(lines, T_TITLE)
    THEN <<>>
    ELSE IF is_excluded THEN <<>>
    ELSE BannedFrom(lines, 1)

\* Mutant: the magic-number issues are returned last line first.
check_magic_numbers_last_first(lines, filepath, is_excluded) ==
    LET r == MagicFrom(lines, 1)
    IN  [j \in 1..Len(r) |-> r[Len(r) + 1 - j]]

check_magic_numbers(lines, filepath, is_excluded) ==
    IF is_excluded THEN <<>> ELSE MagicFrom(lines, 1)

\* Comment lines: the parser never sees them.
IsPyComment(l) == l \in {L_TODO, L_MARKER, L_TITLE, L_PAD}

\* The parser reads statement by statement from line k.  L_DEEP exhausts the
\* parser's stack (MemoryError).  L_TABLE opens a bracket that no line of the
\* alphabet closes: the statement continues over the following lines and
\* fails at the first line that is no comment and no further L_TABLE, with
\* MemoryError if that line is L_DEEP and with SyntaxError otherwise (also
\* at the end of the file).
RECURSIVE ParseFrom(_, _, _)
ParseFrom(lines, k, in_bracket) ==
    IF k > Len(lines) THEN (IF in_bracket THEN "SyntaxError" ELSE "ok")
    ELSE IF lines[k] = L_DEEP THEN "MemoryError"
    ELSE IF IsPyComment(lines[k]) THEN ParseFrom(lines, k + 1, in_bracket)
    ELSE IF lines[k] = L_TABLE THEN ParseFrom(lines, k + 1, TRUE)
    ELSE IF in_bracket THEN "SyntaxError"
    ELSE ParseFrom(lines, k + 1, FALSE)

\* ast.parse(content): the tree, a SyntaxError, or another exception.
ParseOutcome(lines) == ParseFrom(lines, 1, FALSE)

\* The lines that ast.parse turns into a FunctionDef node; none of them has
\* a docstring.
IsFunctionDef(l) == l \in {L_DEF, L_DEF_HINT, L_INIT}

\* node.name
DefName(l) ==
    CASE l = L_DEF      -> "should_exclude_file"
      [] l = L_DEF_HINT -> "area"
      [] l = L_INIT     -> "__init__"

\* node.returns is not None
HasReturns(l) == l = L_DEF_HINT

MissingDocstring(l) ==
    CASE l = L_DEF      -> "Function 'should_exclude_file' missing docstring"
      [] l = L_DEF_HINT -> "Function 'area' missing docstring"
      [] l = L_INIT     -> "Function '__init__' missing docstring"

MissingReturnTypeHint(l) ==
    CASE l = L_DEF      -> "Function 'should_exclude_file' missing return type hint"
      [] l = L_DEF_HINT -> "Function 'area' missing return type hint"
      [] l = L_INIT     -> "Function '__init__' missing return type hint"

RECURSIVE FunctionDefIssues(_, _)
FunctionDefIssues(lines, k) ==
    IF k > Len(lines) THEN <<>>
    ELSE (IF IsFunctionDef(lines[k])
          THEN <<Issue(k, MissingDocstring(lines[k]))>>
               \o (IF ~HasReturns(lines[k]) /\ DefName(lines[k]) # "__init__"
                   THEN <<Issue(k, MissingReturnTypeHint(lines[k]))>>
                   ELSE <<>>)
          ELSE <<>>)
         \o FunctionDefIssues(lines, k + 1)

\* Returns [ret |-> issues, exc]: only SyntaxError is caught.
check_ast_issues(lines) ==
    LET p == ParseOutcome(lines)
    IN  CASE p = "ok"          -> [ret |-> FunctionDefIssues(lines, 1), exc |-> NoExc]
          [] p = "SyntaxError" -> [ret |-> <<Issue(0, "Syntax error")>>, exc |-> NoExc]
          [] OTHER             -> [ret |-> <<>>, exc |-> p]

\* filepath.read_text(encoding="utf-8")
ReadText(f) ==
    CASE f.kind \in {"regular", "scriptlink"} -> [ret |-> f.lines, exc |-> NoExc]
      [] f.kind = "undecodable"               -> [ret |-> <<>>, exc |-> "UnicodeDecodeError"]
      [] OTHER                                -> [ret |-> <<>>, exc |-> "OSError"]

\* except (OSError, UnicodeDecodeError) of check_file
ReadCaught == {"OSError", "UnicodeDecodeError"}

\* What check_file does once should_exclude_file has returned False.
CheckFileBody(f) ==
    LET r == ReadText(f)
    IN  IF r.exc # NoExc THEN [ret |-> <<>>, exc |-> r.exc]
        ELSE LET lines == r.ret
                 is_excluded == FALSE
                 a == check_ast_issues(lines)
             IN  IF \/ Contains(lines, _QUALITY_CHECK_SCRIPT_MARKER)
                    \/ Contains(lines, T_TABLE) /\ Contains(lines, T_TITLE)
                 THEN [ret |-> <<>>, exc |-> NoExc]
                 ELSE IF a.exc # NoExc THEN [ret |-> <<>>, exc |-> a.exc]
                 ELSE [ret |-> check_banned_patterns(lines, f, is_excluded)
                                 \o check_magic_numbers(lines, f, is_excluded)
                                 \o a.ret,
                       exc |-> NoExc]

\* Mutant: check_file without its leading should_exclude_file test.
check_file_unguarded(f) ==
    LET b == CheckFileBody(f)
    IN  IF b.exc \in ReadCaught
        THEN [ret |-> <<Issue(0, "Error reading file")>>, exc |-> NoExc]
        ELSE b

check_file(f) ==
    LET se == should_exclude_file(f)
    IN  IF se.exc # NoExc THEN [ret |-> <<>>, exc |-> se.exc]
        ELSE IF se.ret THEN [ret |-> <<>>, exc |-> NoExc]
        ELSE LET b == CheckFileBody(f)
             IN  IF b.exc \in ReadCaught
                 THEN [ret |-> <<Issue(0, "Error reading file")>>, exc |-> NoExc]
                 ELSE b

(***************************************************************************)
(* Each behaviour runs one entry point; the state of the others is idle.   *)
(***************************************************************************)
ExclNotCalled == [called |-> FALSE, ret |-> FALSE, exc |-> NoExc, calls |-> <<>>]
CfNotCalled == [called |-> FALSE, ret |-> <<>>, exc |-> NoExc]
NoDirect == [called |-> FALSE, bp |-> <<>>, mn |-> <<>>, ast |-> <<>>, astexc |-> NoExc]
CqNotCalled == [called |-> FALSE, bp |-> <<>>, mn |-> <<>>, ast |-> <<>>, astexc |-> NoExc,
                cf |-> <<>>, cfexc |-> NoExc]
NoFile == [name |-> "mod.py", kind |-> "missing", lines |-> <<>>]
NoReport == [total_files |-> 0, issues |-> <<>>, passed |-> TRUE, summary |-> ""]
NoResult == [keys |-> {}, method |-> "", passed |-> FALSE, issues |-> <<>>]

ScanIdle ==
    /\ python_files = <<>> /\ idx = 0 /\ kept = <<>> /\ all_issues = <<>>
    /\ checked = {} /\ argv = <<>> /\ traversed = FALSE
MatlabIdle ==
    /\ project_root_exists = FALSE
    /\ m_files = <<>> /\ config_exists = FALSE /\ cmd_outcome = <<>>
    /\ strict = FALSE /\ attempted = <<>> /\ matlab_results = NoResult
    /\ results = NoReport
AnalyzeIdle ==
    /\ m_lines = <<>> /\ m_i = 0 /\ nesting_level = 0 /\ in_function = FALSE
    /\ m_issues = <<>>
NoPassResult == [called |-> FALSE, issues |-> <<>>, cq_issues |-> <<>>]
NoVerdict == [called |-> FALSE, line_num |-> 0, ret |-> FALSE, cq_ret |-> FALSE]
PassIdle == p_lines = <<>> /\ p_result = NoPassResult /\ p_verdict = NoVerdict
AuditIdle == a_files = <<>> /\ a_idx = 0 /\ RISKS = <<>>
FileIdle ==
    /\ file = NoFile /\ excl = ExclNotCalled /\ cf = CfNotCalled /\ direct = NoDirect
    /\ cq = CqNotCalled

scanVars == <<python_files, idx, kept, all_issues, checked, argv, traversed>>
matlabVars == <<project_root_exists, m_files, config_exists, cmd_outcome, strict, attempted,
                matlab_results, results>>
analyzeVars == <<m_lines, m_i, nesting_level, in_function, m_issues>>
fileVars == <<file, excl, cf, direct, cq>>
passVars == <<p_lines, p_result, p_verdict>>
auditVars == <<a_files, a_idx, RISKS>>

(***************************************************************************)
(* _analyze_matlab_file of matlab_quality_check.py, over MATLAB lines.     *)
(* On these lines the rules that can fire are the function-header checks   *)
(* (docstring, arguments block), the banned-pattern table, the magic       *)
(* number check and the clear/clc/close all checks.                        *)
(***************************************************************************)
M_FUNC    == "function y = f(x)"
M_IF      == "if x > 0"
M_END     == "end"
M_COMMENT == "% end of block"
M_EMPTY   == ""
M_PLAIN   == "y = x;"
M_TODO    == "% TODO"
M_ARGS    == "arguments"
M_GRAV          == "g = 9.81;"
M_GRAV_COMMENT  == "y = x; % 9.81"
M_MAGIC         == "k = 42;"
M_MAGIC_COMMENT == "y = x; % 42"
M_CLEARALL      == "clear all"
M_CLEAR         == "clear"
M_CLC           == "clc"
M_CLOSEALL      == "close all"

\* line_stripped.startswith("%")
IsComment(l) == l \in {M_COMMENT, M_TODO}
\* re.match(r"\b(function|if|for|while|switch|try|parfor|classdef|...)\b", line_stripped)
OpensNesting(l) == l \in {M_FUNC, M_IF, M_ARGS}
\* re.match(r"\bend\b", line_stripped)
ClosesNesting(l) == l = M_END
\* Mutant: no line counts as a function header.
StartsFunction_never(l) == FALSE

\* line_stripped.startswith("function")
StartsFunction(l) == l = M_FUNC
\* re.search(r"\barguments\b", line_check)
HasArguments(l) == l = M_ARGS
\* Messages of the banned_patterns entries found in the line, in table order.
MatlabBannedMessages(l) == IF l = M_TODO THEN <<"TODO placeholder found">> ELSE <<>>

\* re.findall(magic_number_pattern, line_stripped): the numeric literals of
\* the line, those after a '%' included.
MagicNumbersIn(l) ==
    CASE l \in {M_GRAV, M_GRAV_COMMENT}   -> <<"9.81">>
      [] l \in {M_MAGIC, M_MAGIC_COMMENT} -> <<"42">>
      [] l = M_IF                         -> <<"0">>
      [] OTHER                            -> <<>>

acceptable_numbers ==
    {"0", "0.0", "1", "1.0", "2", "2.0", "3", "3.0", "4", "4.0", "5", "5.0", "10", "10.0",
     "100", "100.0", "1000", "1000.0", "0.5", "0.1", "0.01", "0.001", "0.0001"}

\* The keys of known_constants.
known_constants ==
    {"3.14159", "3.1416", "3.14", "1.5708", "1.57", "0.7854", "0.785", "9.81", "9.8", "9.807"}

\* comment_idx == -1 or (num_idx != -1 and num_idx < comment_idx)
NumberBeforeComment(l, num) == l \notin {M_GRAV_COMMENT, M_MAGIC_COMMENT}

GravityMessage ==
    "Magic number 9.81 (gravitational acceleration [m/s^2] - approximate standard gravity) - define as named constant"

\* The body of "for num in magic_numbers" for one literal.
MagicNumberIssue(l, i, num) ==
    IF num \in known_constants
    THEN <<Issue(i, GravityMessage)>>
    ELSE IF num \notin acceptable_numbers /\ NumberBeforeComment(l, num)
    THEN <<Issue(i, "Magic number 42 should be defined as constant with units and source")>>
    ELSE <<>>

RECURSIVE MagicNumberIssues(_, _, _)
MagicNumberIssues(l, i, k) ==
    IF k > Len(MagicNumbersIn(l)) THEN <<>>
    ELSE MagicNumberIssue(l, i, MagicNumbersIn(l)[k]) \o MagicNumberIssues(l, i, k + 1)

ClearAllMessage ==
    "Avoid 'clear all' or 'clear global' in functions - clears all variables, functions, and MEX links"
ClearMessage    == "Avoid 'clear' in functions - can clear function variables"
ClcMessage      == "Avoid 'clc' in functions - affects user's workspace"
CloseAllMessage == "Avoid 'close all' in functions - closes user's figures"

\* The clear/clc/close all checks, all under "if in_function".
ClearIssues(l, i, inside) ==
    IF ~inside THEN <<>>
    ELSE (IF l = M_CLEARALL             \* \bclear\s+(all|global)\b
          THEN <<Issue(i, ClearAllMessage)>>
          ELSE IF l = M_CLEAR           \* \bclear\b(?!\s+\w+)
          THEN <<Issue(i, ClearMessage)>>
          ELSE <<>>)
         \o (IF l = M_CLC              \* \bclc\b
             THEN <<Issue(i, ClcMessage)>>
             ELSE <<>>)
         \o (IF l = M_CLOSEALL         \* \bclose\s+all\b
             THEN <<Issue(i, CloseAllMessage)>>
             ELSE <<>>)

\* The docstring lookahead: lines j..hi after a function header.
RECURSIVE DocstringFrom(_, _, _)
DocstringFrom(lines, j, hi) ==
    IF j > hi THEN FALSE
    ELSE IF lines[j] # M_EMPTY /\ ~IsComment(lines[j]) THEN FALSE
    ELSE IF IsComment(lines[j]) /\ Len(lines[j]) > 3 THEN TRUE
    ELSE DocstringFrom(lines, j + 1, hi)

\* Issues of the function-header checks for the header on line i.
FunctionHeaderIssues(lines, i) ==
    (IF DocstringFrom(lines, i + 1, Min(i + 5, Len(lines))) THEN <<>>
     ELSE <<Issue(i, "Missing function docstring")>>)
    \o (IF \E j \in (i + 1)..Min(i + 15, Len(lines)) :
              ~IsComment(lines[j]) /\ HasArguments(lines[j])
        THEN <<>>
        ELSE <<Issue(i, "Missing arguments validation block")>>)

\* Mutant: the counter is not clamped after a closing keyword.
NestingAfterEnd_unclamped(n) == n - 1

\* nesting_level -= 1; if nesting_level <= 0: nesting_level = 0
NestingAfterEnd(n) == IF n - 1 <= 0 THEN 0 ELSE n - 1

\* One iteration of the line loop: st is [nesting_level, in_function, issues].
AnalyzeLine(st, lines, i) ==
    LET l == lines[i]
        opens == ~IsComment(l) /\ OpensNesting(l)
        closes == ~IsComment(l) /\ ClosesNesting(l)
        level1 == IF opens THEN st.nesting_level + 1 ELSE st.nesting_level
        inside1 == IF opens /\ StartsFunction(l) THEN TRUE ELSE st.in_function
        level2 == IF closes THEN NestingAfterEnd(level1) ELSE level1
        inside2 == IF closes /\ level1 - 1 <= 0 THEN FALSE ELSE inside1
    IN  IF l = M_EMPTY THEN st
        ELSE [nesting_level |-> level2,
              in_function |-> inside2,
              issues |-> st.issues
                  \o (IF StartsFunction(l) /\ ~IsComment(l)
                      THEN FunctionHeaderIssues(lines, i) ELSE <<>>)
                  \o AtLine(i, MatlabBannedMessages(l))
                  \o (IF IsComment(l) THEN <<>>
                      ELSE MagicNumberIssues(l, i, 1) \o ClearIssues(l, i, inside2))]

AnalyzeStart == [nesting_level |-> 0, in_function |-> FALSE, issues |-> <<>>]

RECURSIVE AnalyzeUpTo(_, _)
AnalyzeUpTo(lines, n) ==
    IF n = 0 THEN AnalyzeStart ELSE AnalyzeLine(AnalyzeUpTo(lines, n - 1), lines, n)

\* f is [readable, lines]; a file that cannot be opened gives one issue.
_analyze_matlab_file(f) ==
    IF ~f.readable THEN <<Issue(0, "Could not analyze file")>>
    ELSE AnalyzeUpTo(f.lines, Len(f.lines)).issues

(***************************************************************************)
(* SpecAnalyze: the line loop of _analyze_matlab_file, one line per step.  *)
(***************************************************************************)
MScanLines == {M_FUNC, M_IF, M_END, M_COMMENT, M_EMPTY, M_PLAIN, M_ARGS}
MRuleLines == {M_FUNC, M_END, M_GRAV, M_GRAV_COMMENT, M_MAGIC, M_MAGIC_COMMENT,
               M_CLEARALL, M_CLEAR, M_CLC, M_CLOSEALL}

InitAnalyze ==
    /\ prog = "analyze" /\ pc = "lines"
    /\ m_lines \in SeqsUpTo(MScanLines, MaxScanLines) \cup SeqsUpTo(MRuleLines, MaxRuleLines)
    /\ m_i = 0 /\ nesting_level = 0 /\ in_function = FALSE /\ m_issues = <<>>
    /\ exit_code = -1 /\ uncaught = NoExc
    /\ FileIdle /\ ScanIdle /\ MatlabIdle /\ PassIdle /\ AuditIdle /\ runs = <<>>

ScanLine ==
    /\ prog = "analyze" /\ pc = "lines" /\ m_i < Len(m_lines)
    /\ LET st == AnalyzeLine([nesting_level |-> nesting_level,
                              in_function |-> in_function,
                              issues |-> m_issues], m_lines, m_i + 1)
       IN  /\ nesting_level' = st.nesting_level
           /\ in_function' = st.in_function
           /\ m_issues' = st.issues
    /\ m_i' = m_i + 1
    /\ UNCHANGED <<prog, pc, m_lines, exit_code, uncaught,
                   fileVars, scanVars, matlabVars, passVars, auditVars, runs>>

ReturnIssues ==
    /\ prog = "analyze" /\ pc = "lines" /\ m_i = Len(m_lines)
    /\ pc' = "returned"
    /\ UNCHANGED <<prog, m_lines, m_i, nesting_level, in_function, m_issues,
                   exit_code, uncaught, fileVars, scanVars, matlabVars, passVars, auditVars, runs>>

NextAnalyze == ScanLine \/ ReturnIssues

SpecAnalyze == InitAnalyze /\ [][NextAnalyze]_vars

(***************************************************************************)
(* main() and MATLABQualityChecker.run_all_checks of                       *)
(* matlab_quality_check.py.  A result dictionary is [keys, method, passed, *)
(* issues]; passed and issues are meaningful only if named in keys.        *)
(***************************************************************************)
MFiles ==
    { [readable |-> TRUE, lines |-> <<M_PLAIN>>],
      [readable |-> TRUE, lines |-> <<M_TODO>>],
      [readable |-> FALSE, lines |-> <<>>] }

\* What subprocess.run does with one candidate command.
Outcomes == {"rc0", "rc_nonzero", "FileNotFoundError", "TimeoutExpired", "PermissionError"}

\* commands of _run_matlab_script, in the order of the list.
commands == <<"matlab -batch", "matlab -nosplash -nodesktop -batch", "octave --no-gui --eval">>

\* Mutant: a timeout is no longer caught by the inner handler.
RunScriptContinue_no_timeout == {"FileNotFoundError"}

\* except (subprocess.TimeoutExpired, FileNotFoundError): continue
RunScriptContinue == {"TimeoutExpired", "FileNotFoundError"}

RECURSIVE StaticIssuesFrom(_, _)
StaticIssuesFrom(files, k) ==
    IF k > Len(files) THEN <<>>
    ELSE _analyze_matlab_file(files[k]) \o StaticIssuesFrom(files, k + 1)

\* The dictionary _static_matlab_analysis returns.
StaticResult(files) ==
    LET issues == StaticIssuesFrom(files, 1)
    IN  [keys |-> {"success", "method", "total_files", "issues", "passed"},
         method |-> "static_analysis",
         passed |-> (Len(issues) = 0),
         issues |-> issues]

\* Mutant: _static_matlab_analysis stores the issues and leaves "passed" alone.
StaticReport_passed_kept(r, files) ==
    LET issues == StaticIssuesFrom(files, 1)
    IN  [r EXCEPT !.total_files = Len(files), !.issues = issues]

\* self.results after _static_matlab_analysis.
StaticReport(r, files) ==
    LET issues == StaticIssuesFrom(files, 1)
    IN  [r EXCEPT !.total_files = Len(files), !.issues = issues,
                  !.passed = (Len(issues) = 0)]

ScriptResult == [keys |-> {"success", "output", "method"}, method |-> "matlab_script",
                 passed |-> FALSE, issues |-> <<>>]
ErrorResult == [keys |-> {"error"}, method |-> "", passed |-> FALSE, issues |-> <<>>]

\* matlab_results.get("passed", False)
GetPassed(r) == IF "passed" \in r.keys THEN r.passed ELSE FALSE

\* self.results as __init__ leaves it.
NewResults == [total_files |-> 0, issues |-> <<>>, passed |-> TRUE, summary |-> ""]

InitMatlab ==
    /\ prog = "matlab_quality_check" /\ pc = "main"
    /\ project_root_exists \in BOOLEAN
    /\ m_files \in SeqsUpTo(MFiles, MaxMFiles)
    /\ config_exists \in BOOLEAN
    /\ config_exists => m_files # <<>>     \* the config script is a *.m file of matlab/
    /\ cmd_outcome \in [1..Len(commands) -> Outcomes]
    /\ strict \in BOOLEAN
    /\ attempted = <<>>
    /\ matlab_results = NoResult
    /\ results = NewResults
    /\ exit_code = -1 /\ uncaught = NoExc
    /\ FileIdle /\ ScanIdle /\ AnalyzeIdle /\ PassIdle /\ AuditIdle /\ runs = <<>>

\* main(): the project root is resolved; a missing root ends the process.
MainStart ==
    /\ prog = "matlab_quality_check" /\ pc = "main"
    /\ IF project_root_exists
       THEN pc' = "run_all_checks" /\ UNCHANGED exit_code
       ELSE pc' = "exited_no_report" /\ exit_code' = 1
    /\ UNCHANGED <<prog, uncaught, matlabVars, fileVars, scanVars, analyzeVars, passVars, auditVars, runs>>

\* run_all_checks up to its call of run_matlab_quality_checks:
\* check_matlab_files_exist, and the skip path when it returns False.
CheckFilesExist ==
    /\ prog = "matlab_quality_check" /\ pc = "run_all_checks"
    /\ IF Len(m_files) = 0
       THEN /\ results' = [results EXCEPT !.passed = TRUE,
                               !.summary = "[SKIP] No MATLAB files to check - passed"]
            /\ pc' = "report"
       ELSE /\ results' = [results EXCEPT !.total_files = Len(m_files)]
            /\ pc' = "run_matlab_quality_checks"
    /\ UNCHANGED <<prog, exit_code, uncaught, project_root_exists, m_files,
                   config_exists, cmd_outcome, strict, attempted, matlab_results,
                   fileVars, scanVars, analyzeVars, passVars, auditVars, runs>>

\* run_matlab_quality_checks when the config script does not exist.
ConfigMissingStatic ==
    /\ prog = "matlab_quality_check" /\ pc = "run_matlab_quality_checks"
    /\ ~config_exists
    /\ matlab_results' = StaticResult(m_files)
    /\ results' = StaticReport(results, m_files)
    /\ pc' = "got_results"
    /\ UNCHANGED <<prog, exit_code, uncaught, project_root_exists, m_files,
                   config_exists, cmd_outcome, strict, attempted,
                   fileVars, scanVars, analyzeVars, passVars, auditVars, runs>>

\* One iteration of "for cmd in commands" of _run_matlab_script.
TryCommand ==
    /\ prog = "matlab_quality_check" /\ pc = "run_matlab_quality_checks"
    /\ config_exists
    /\ Len(attempted) < Len(commands)
    /\ LET k == Len(attempted) + 1
           o == cmd_outcome[k]
       IN  /\ attempted' = Append(attempted, k)
           /\ CASE o = "rc0" ->
                     matlab_results' = ScriptResult /\ pc' = "got_results"
                [] o = "rc_nonzero" \/ o \in RunScriptContinue ->
                     UNCHANGED <<matlab_results, pc>>
                [] OTHER ->          \* except Exception of _run_matlab_script
                     matlab_results' = ErrorResult /\ pc' = "got_results"
    /\ UNCHANGED <<prog, exit_code, uncaught, project_root_exists, m_files,
                   config_exists, cmd_outcome, strict, results,
                   fileVars, scanVars, analyzeVars, passVars, auditVars, runs>>

\* Mutant: the fallback no longer waits for the end of the command list.
AllCommandsFailedStatic_after_any ==
    /\ prog = "matlab_quality_check" /\ pc = "run_matlab_quality_checks"
    /\ config_exists
    /\ Len(attempted) >= 1
    /\ matlab_results' = StaticResult(m_files)
    /\ results' = StaticReport(results, m_files)
    /\ pc' = "got_results"
    /\ UNCHANGED <<prog, exit_code, uncaught, project_root_exists, m_files,
                   config_exists, cmd_outcome, strict, attempted,
                   fileVars, scanVars, analyzeVars, passVars, auditVars, runs>>

\* "If all commands fail, fall back to static analysis".
AllCommandsFailedStatic ==
    /\ prog = "matlab_quality_check" /\ pc = "run_matlab_quality_checks"
    /\ config_exists
    /\ Len(attempted) = Len(commands)
    /\ matlab_results' = StaticResult(m_files)
    /\ results' = StaticReport(results, m_files)
    /\ pc' = "got_results"
    /\ UNCHANGED <<prog, exit_code, uncaught, project_root_exists, m_files,
                   config_exists, cmd_outcome, strict, attempted,
                   fileVars, scanVars, analyzeVars, passVars, auditVars, runs>>

\* run_all_checks after run_matlab_quality_checks has returned.
FinishRunAllChecks ==
    /\ prog = "matlab_quality_check" /\ pc = "got_results"
    /\ results' =
          IF "error" \in matlab_results.keys
          THEN [results EXCEPT !.passed = FALSE,
                               !.summary = "MATLAB quality checks failed"]
          ELSE IF GetPassed(matlab_results)
          THEN [results EXCEPT !.summary = "[PASS] MATLAB quality checks PASSED"]
          ELSE [results EXCEPT !.passed = FALSE,
                               !.summary = "[FAIL] MATLAB quality checks FAILED"]
    /\ pc' = "report"
    /\ UNCHANGED <<prog, exit_code, uncaught, project_root_exists, m_files,
                   config_exists, cmd_outcome, strict, attempted, matlab_results,
                   fileVars, scanVars, analyzeVars, passVars, auditVars, runs>>

\* Mutant: the exit code looks at the issues only.
MatlabExitCode_issues_only(passed, has_issues, strict_flag) ==
    IF has_issues THEN 1 ELSE 0

\* The exit policy at the end of main().
MatlabExitCode(passed, has_issues, strict_flag) ==
    IF strict_flag
    THEN (IF passed /\ ~has_issues THEN 0 ELSE 1)
    ELSE (IF passed THEN 0 ELSE 1)

\* main() after run_all_checks: the report is printed and the process exits.
MainExit ==
    /\ prog = "matlab_quality_check" /\ pc = "report"
    /\ exit_code' = MatlabExitCode(results.passed, results.issues # <<>>, strict)
    /\ pc' = "exited"
    /\ UNCHANGED <<prog, uncaught, matlabVars, fileVars, scanVars, analyzeVars, passVars, auditVars, runs>>

NextMatlab ==
    \/ MainStart \/ CheckFilesExist \/ ConfigMissingStatic \/ TryCommand
    \/ AllCommandsFailedStatic \/ FinishRunAllChecks \/ MainExit

SpecMatlab == InitMatlab /\ [][NextMatlab]_vars

(***************************************************************************)
(* SpecRunScript: the runs of main() that reach _run_matlab_script (the    *)
(* project root and the config script exist).  The function is sequential  *)
(* code and every subprocess.run is bounded by its timeout argument, so a  *)
(* step of the command loop that can be taken is taken: weak fairness on   *)
(* the loop iteration and on the fallback after the loop.                  *)
(***************************************************************************)
InitRunScript == InitMatlab /\ project_root_exists /\ config_exists

NextRunScript ==
    \/ MainStart \/ CheckFilesExist \/ TryCommand
    \/ AllCommandsFailedStatic \/ FinishRunAllChecks \/ MainExit

SpecRunScript ==
    /\ InitRunScript /\ [][NextRunScript]_vars
    /\ WF_vars(TryCommand) /\ WF_vars(AllCommandsFailedStatic)

(***************************************************************************)
(* SpecFile: the functions of scripts/quality_check.py applied to one      *)
(* candidate path: should_exclude_file, check_file, and the three rule     *)
(* functions called directly with is_excluded left at its default.         *)
(***************************************************************************)
InitFile ==
    /\ prog = "file" /\ pc = "call"
    /\ file \in Files
    /\ excl = ExclNotCalled /\ cf = CfNotCalled /\ direct = NoDirect /\ cq = CqNotCalled
    /\ exit_code = -1 /\ uncaught = NoExc
    /\ ScanIdle /\ MatlabIdle /\ AnalyzeIdle /\ PassIdle /\ AuditIdle /\ runs = <<>>

CallShouldExclude ==
    /\ prog = "file" /\ ~excl.called
    /\ excl' = should_exclude_file(file) @@ [called |-> TRUE]
    /\ UNCHANGED <<prog, pc, file, cf, direct, cq, exit_code, uncaught,
                   scanVars, matlabVars, analyzeVars, passVars, auditVars, runs>>

CallCheckFile ==
    /\ prog = "file" /\ ~cf.called
    /\ cf' = check_file(file) @@ [called |-> TRUE]
    /\ UNCHANGED <<prog, pc, file, excl, direct, cq, exit_code, uncaught,
                   scanVars, matlabVars, analyzeVars, passVars, auditVars, runs>>

\* A caller that has read the file hands its lines to each rule function.
CallRulesDirectly ==
    /\ prog = "file" /\ ~direct.called
    /\ ReadText(file).exc = NoExc
    /\ LET lines == ReadText(file).ret
           a == check_ast_issues(lines)
       IN  direct' = [called |-> TRUE,
                      bp |-> check_banned_patterns(lines, file, FALSE),
                      mn |-> check_magic_numbers(lines, file, FALSE),
                      ast |-> a.ret, astexc |-> a.exc]
    /\ UNCHANGED <<prog, pc, file, excl, cf, cq, exit_code, uncaught,
                   scanVars, matlabVars, analyzeVars, passVars, auditVars, runs>>

NextFile == CallShouldExclude \/ CallCheckFile \/ CallRulesDirectly

SpecFile == InitFile /\ [][NextFile]_vars

(***************************************************************************)
(* main() of scripts/quality_check.py: discovery, the directory denylist,  *)
(* the self-exclusion filter, the check loop, the report and the exit.     *)
(* An exception that no handler catches ends the process with exit code 1. *)
(***************************************************************************)
exclude_dirs == {"archive", "legacy", "experimental", ".git", "__pycache__",
                 ".ruff_cache", ".mypy_cache", "matlab", "output",
                 ".ipynb_checkpoints", ".Trash"}

ScanDirs == {"pkg", "archive"}

ScanContents_plain == [name |-> "mod.py", kind |-> "regular", lines |-> <<L_PLAIN>>]
ScanContents_todo == [name |-> "mod.py", kind |-> "regular", lines |-> <<L_TODO>>]
ScanContents_todo_line2 ==
    [name |-> "mod.py", kind |-> "regular", lines |-> <<L_PLAIN, L_TODO>>]

\* The files a scanned tree is made of.
ScanContents ==
    { ScanContents_plain,
      ScanContents_todo,
      ScanContents_todo_line2,
      [name |-> "quality_check.py", kind |-> "regular", lines |-> <<L_TODO>>],
      [name |-> "mod.py", kind |-> "regular", lines |-> <<L_DEEP>>],
      [name |-> "mod.py", kind |-> "regular", lines |-> <<L_PAD, L_MARKER>>],
      [name |-> "mod.py", kind |-> "vanishing", lines |-> <<>>],
      [name |-> "mod.py", kind |-> "symloop", lines |-> <<>>] }

ScanFiles == { c @@ [dir |-> d] : c \in ScanContents, d \in ScanDirs }

\* Command lines: no file argument, or files named one by one.
ArgLists ==
    {<<>>}
    \cup { <<c @@ [dir |-> d]>> : c \in {ScanContents_plain, ScanContents_todo}, d \in ScanDirs }
    \cup { << ScanContents_todo @@ [dir |-> "archive"], ScanContents_plain @@ [dir |-> "pkg"] >> }

\* any(part in exclude_dirs for part in f.parts)
InExcludedDir(f) == f.dir \in exclude_dirs \/ f.name \in exclude_dirs

InitScan ==
    /\ prog = "quality_check" /\ pc = "dirfilter"
    /\ python_files \in SeqsUpTo(ScanFiles, MaxFiles)      \* list(Path().rglob("*.py"))
    /\ traversed = TRUE
    /\ argv \in ArgLists                                   \* sys.argv[1:], never read
    /\ idx = 0 /\ kept = <<>> /\ all_issues = <<>> /\ checked = {}
    /\ exit_code = -1 /\ uncaught = NoExc
    /\ FileIdle /\ MatlabIdle /\ AnalyzeIdle /\ PassIdle /\ AuditIdle /\ runs = <<>>

\* python_files = [f for f in python_files if not any(part in exclude_dirs ...)]
DirFilter ==
    /\ prog = "quality_check" /\ pc = "dirfilter"
    /\ python_files' = SelectSeq(python_files, LAMBDA f : ~InExcludedDir(f))
    /\ pc' = "exclfilter" /\ idx' = 0 /\ kept' = <<>>
    /\ UNCHANGED <<prog, all_issues, checked, exit_code, uncaught,
                   argv, traversed, fileVars, matlabVars, analyzeVars, passVars, auditVars, runs>>

\* One element of [f for f in python_files if not should_exclude_file(f)].
ExcludeFilterStep ==
    /\ prog = "quality_check" /\ pc = "exclfilter" /\ idx < Len(python_files)
    /\ LET f == python_files[idx + 1]
           se == should_exclude_file(f)
       IN  IF se.exc # NoExc
           THEN /\ uncaught' = se.exc /\ exit_code' = 1 /\ pc' = "crashed"
                /\ UNCHANGED <<idx, kept>>
           ELSE /\ kept' = IF se.ret THEN kept ELSE Append(kept, f)
                /\ idx' = idx + 1
                /\ UNCHANGED <<uncaught, exit_code, pc>>
    /\ UNCHANGED <<prog, python_files, all_issues, checked,
                   argv, traversed, fileVars, matlabVars, analyzeVars, passVars, auditVars, runs>>

\* The comprehension is complete: python_files is rebound to its result.
ExcludeFilterDone ==
    /\ prog = "quality_check" /\ pc = "exclfilter" /\ idx = Len(python_files)
    /\ python_files' = kept /\ kept' = <<>> /\ idx' = 0 /\ pc' = "check"
    /\ UNCHANGED <<prog, all_issues, checked, exit_code, uncaught,
                   argv, traversed, fileVars, matlabVars, analyzeVars, passVars, auditVars, runs>>

\* One iteration of "for filepath in python_files".
CheckFileStep ==
    /\ prog = "quality_check" /\ pc = "check" /\ idx < Len(python_files)
    /\ LET r == check_file(python_files[idx + 1])
       IN  IF r.exc # NoExc
           THEN /\ uncaught' = r.exc /\ exit_code' = 1 /\ pc' = "crashed"
                /\ UNCHANGED <<idx, all_issues, checked>>
           ELSE /\ all_issues' = IF r.ret # <<>>
                                 THEN Append(all_issues, <<idx + 1, r.ret>>)
                                 ELSE all_issues
                /\ checked' = checked \cup {idx + 1}
                /\ idx' = idx + 1
                /\ UNCHANGED <<uncaught, exit_code, pc>>
    /\ UNCHANGED <<prog, python_files, kept, argv, traversed, fileVars, matlabVars, analyzeVars, passVars, auditVars, runs>>

\* Mutant: the process always exits with 0.
ScanExitCode_always_zero(issues) == 0

\* sys.exit(1) if all_issues else sys.exit(0)
ScanExitCode(issues) == IF issues # <<>> THEN 1 ELSE 0

Report ==
    /\ prog = "quality_check" /\ pc = "check" /\ idx = Len(python_files)
    /\ exit_code' = ScanExitCode(all_issues)
    /\ pc' = "exited"
    /\ UNCHANGED <<prog, python_files, idx, kept, all_issues, checked, uncaught,
                   argv, traversed, fileVars, matlabVars, analyzeVars, passVars, auditVars, runs>>

NextScan ==
    DirFilter \/ ExcludeFilterStep \/ ExcludeFilterDone \/ CheckFileStep \/ Report

SpecScan == InitScan /\ [][NextScan]_vars

(***************************************************************************)
(* tools/code_quality_check.py: the rule functions skip the checker        *)
(* scripts by file name; main() takes the files to check from the command  *)
(* line, or walks the tree and applies the directory denylist.             *)
(***************************************************************************)
CQ_SKIP_NAMES == {"quality_check_script.py", "matlab_quality_check.py", "code_quality_check.py"}

\* The single backward scan of code_quality_check.py; its two further loops
\* run only when no line of the first window decided.
cq_is_legitimate_pass_context(lines, line_num) ==
    /\ line_num > 0 /\ line_num <= Len(lines)
    /\ IsPass(lines[line_num])
    /\ LET lo == Max(0, line_num - 10) + 1
           decided == {i \in lo..(line_num - 1) :
                          StartsClass(lines[i]) \/ StartsDef(lines[i])
                              \/ IsBlockKeywordLine(lines[i])}
       IN  IF decided # {}
           THEN LET i == CHOOSE x \in decided : \A y \in decided : y <= x
                IN  IF StartsClass(lines[i]) THEN TRUE
                    ELSE IF StartsDef(lines[i]) THEN FALSE
                    ELSE TRUE
           ELSE \/ _is_in_try_except_block(lines, line_num)
                \/ _is_in_context_manager(lines, line_num)

CqPassIssues(lines, k) ==
    IF IsPass(lines[k]) /\ ~cq_is_legitimate_pass_context(lines, k)
    THEN <<Issue(k, "Empty pass statement - consider adding logic or comment")>>
    ELSE <<>>

RECURSIVE CqBannedFrom(_, _)
CqBannedFrom(lines, k) ==
    IF k > Len(lines) THEN <<>>
    ELSE AtLine(k, BannedMessages(lines[k])) \o CqPassIssues(lines, k)
         \o CqBannedFrom(lines, k + 1)

cq_check_banned_patterns(lines, filepath) ==
    IF filepath.name \in CQ_SKIP_NAMES THEN <<>> ELSE CqBannedFrom(lines, 1)

cq_check_magic_numbers(lines, filepath) ==
    IF filepath.name \in CQ_SKIP_NAMES THEN <<>> ELSE MagicFrom(lines, 1)

\* The return-type-hint check is relaxed here: only the docstring issue.
RECURSIVE CqFunctionDefIssues(_, _)
CqFunctionDefIssues(lines, k) ==
    IF k > Len(lines) THEN <<>>
    ELSE (IF IsFunctionDef(lines[k])
          THEN <<Issue(k, MissingDocstring(lines[k]))>>
          ELSE <<>>)
         \o CqFunctionDefIssues(lines, k + 1)

cq_check_ast_issues(lines, filepath) ==
    IF filepath.name \in CQ_SKIP_NAMES THEN [ret |-> <<>>, exc |-> NoExc]
    ELSE LET p == ParseOutcome(lines)
         IN  CASE p = "ok"          -> [ret |-> CqFunctionDefIssues(lines, 1), exc |-> NoExc]
               [] p = "SyntaxError" -> [ret |-> <<Issue(0, "Syntax error")>>, exc |-> NoExc]
               [] OTHER             -> [ret |-> <<>>, exc |-> p]

\* Mutant: a file without lines is reported as unreadable.
cq_check_file_empty_unreadable(f) ==
    IF ReadText(f).ret = <<>>
    THEN [ret |-> <<Issue(0, "Error reading file")>>, exc |-> NoExc]
    ELSE [ret |-> <<>>, exc |-> NoExc]

cq_check_file(f) ==
    LET r == ReadText(f)
    IN  IF r.exc \in ReadCaught
        THEN [ret |-> <<Issue(0, "Error reading file")>>, exc |-> NoExc]
        ELSE LET a == cq_check_ast_issues(r.ret, f)
             IN  IF a.exc # NoExc THEN [ret |-> <<>>, exc |-> a.exc]
                 ELSE [ret |-> cq_check_banned_patterns(r.ret, f)
                                 \o cq_check_magic_numbers(r.ret, f)
                                 \o a.ret,
                       exc |-> NoExc]

InitCode ==
    /\ prog = "code_quality_check" /\ pc = "discover"
    /\ argv \in ArgLists                                   \* sys.argv[1:]
    /\ python_files = <<>> /\ traversed = FALSE
    /\ idx = 0 /\ kept = <<>> /\ all_issues = <<>> /\ checked = {}
    /\ exit_code = -1 /\ uncaught = NoExc
    /\ FileIdle /\ MatlabIdle /\ AnalyzeIdle /\ PassIdle /\ AuditIdle /\ runs = <<>>

\* Lines 196-220: the file list is the command line's, or the walked tree
\* filtered by the directory denylist.
CqDiscover ==
    /\ prog = "code_quality_check" /\ pc = "discover"
    /\ IF Len(argv) > 0
       THEN python_files' = argv /\ UNCHANGED traversed
       ELSE /\ \E found \in SeqsUpTo(ScanFiles, MaxFiles) :
                 python_files' = SelectSeq(found, LAMBDA f : ~InExcludedDir(f))
            /\ traversed' = TRUE
    /\ pc' = "check"
    /\ UNCHANGED <<prog, idx, kept, all_issues, checked, argv, exit_code, uncaught,
                   fileVars, matlabVars, analyzeVars, passVars, auditVars, runs>>

\* One iteration of "for filepath in python_files".
CqCheckFileStep ==
    /\ prog = "code_quality_check" /\ pc = "check" /\ idx < Len(python_files)
    /\ LET r == cq_check_file(python_files[idx + 1])
       IN  IF r.exc # NoExc
           THEN /\ uncaught' = r.exc /\ exit_code' = 1 /\ pc' = "crashed"
                /\ UNCHANGED <<idx, all_issues, checked>>
           ELSE /\ all_issues' = IF r.ret # <<>>
                                 THEN Append(all_issues, <<idx + 1, r.ret>>)
                                 ELSE all_issues
                /\ checked' = checked \cup {idx + 1}
                /\ idx' = idx + 1
                /\ UNCHANGED <<uncaught, exit_code, pc>>
    /\ UNCHANGED <<prog, python_files, kept, argv, traversed,
                   fileVars, matlabVars, analyzeVars, passVars, auditVars, runs>>

CqReport ==
    /\ prog = "code_quality_check" /\ pc = "check" /\ idx = Len(python_files)
    /\ exit_code' = ScanExitCode(all_issues)
    /\ pc' = "exited"
    /\ UNCHANGED <<prog, python_files, idx, kept, all_issues, checked, argv, traversed,
                   uncaught, fileVars, matlabVars, analyzeVars, passVars, auditVars, runs>>

NextCode == CqDiscover \/ CqCheckFileStep \/ CqReport

SpecCode == InitCode /\ [][NextCode]_vars

(***************************************************************************)
(* SpecPass: check_banned_patterns of both Python checkers applied to      *)
(* lines around pass statements.                                           *)
(***************************************************************************)
InitPass ==
    /\ prog = "pass" /\ pc = "call"
    /\ p_lines \in SeqsUpTo(PassLines, MaxPassLines)
    /\ p_result = NoPassResult /\ p_verdict = NoVerdict
    /\ exit_code = -1 /\ uncaught = NoExc
    /\ FileIdle /\ ScanIdle /\ MatlabIdle /\ AnalyzeIdle /\ AuditIdle /\ runs = <<>>

\* The path is one that no name test of either checker matches.
CallCheckBannedPatterns ==
    /\ prog = "pass" /\ pc = "call"
    /\ p_result' = [called |-> TRUE,
                    issues |-> check_banned_patterns(p_lines, ScanContents_plain, FALSE),
                    cq_issues |-> cq_check_banned_patterns(p_lines, ScanContents_plain)]
    /\ pc' = "returned"
    /\ UNCHANGED <<prog, p_lines, p_verdict, exit_code, uncaught,
                   fileVars, scanVars, matlabVars, analyzeVars, auditVars, runs>>

\* is_legitimate_pass_context(lines, line_num) of both checkers, for a line
\* number inside the list or just outside it.
CallIsLegitimatePassContext ==
    /\ prog = "pass" /\ ~p_verdict.called
    /\ \E line_num \in 0..(Len(p_lines) + 1) :
          p_verdict' = [called |-> TRUE, line_num |-> line_num,
                        ret |-> is_legitimate_pass_context(p_lines, line_num),
                        cq_ret |-> cq_is_legitimate_pass_context(p_lines, line_num)]
    /\ UNCHANGED <<prog, pc, p_lines, p_result, exit_code, uncaught,
                   fileVars, scanVars, matlabVars, analyzeVars, auditVars, runs>>

NextPass == CallCheckBannedPatterns \/ CallIsLegitimatePassContext

SpecPass == InitPass /\ [][NextPass]_vars

(***************************************************************************)
(* SpecWindow: the same calls on longer lists, made of two lines of        *)
(* WindowLines, plain lines after each of them, and a pass as last line.   *)
(***************************************************************************)
WindowLines == {P_CLASS, P_DEF, P_TRY, P_EXC_NAME, P_WITH, P_WITH_TAIL, L_PLAIN}

Fill(k) == [i \in 1..k |-> L_PLAIN]

WindowLists ==
    { <<far>> \o Fill(a) \o <<near>> \o Fill(b) \o <<P_PASS>> :
        far \in WindowLines, near \in WindowLines,
        a \in 0..MaxGap, b \in 0..MaxGap }

InitWindow ==
    /\ prog = "pass" /\ pc = "call"
    /\ p_lines \in { l \in WindowLists : Len(l) <= MaxGap + 3 }
    /\ p_result = NoPassResult /\ p_verdict = NoVerdict
    /\ exit_code = -1 /\ uncaught = NoExc
    /\ FileIdle /\ ScanIdle /\ MatlabIdle /\ AnalyzeIdle /\ AuditIdle /\ runs = <<>>

SpecWindow == InitWindow /\ [][NextPass]_vars

(***************************************************************************)
(* tools/scientific_auditor.py.  A file's body is a sequence of expression *)
(* statements, statement k on line k; an expression is a tree of           *)
(* Constant, Name, Attribute, BinOp and Call nodes.  A Constant records    *)
(* the type of its value and whether value != 0 is false.                  *)
(***************************************************************************)
C_ZERO  == [type |-> "Constant", kind |-> "int", zero |-> TRUE]      \* 0
C_TWO   == [type |-> "Constant", kind |-> "int", zero |-> FALSE]     \* 2
C_FLOAT == [type |-> "Constant", kind |-> "float", zero |-> FALSE]   \* 1.5708
C_STR   == [type |-> "Constant", kind |-> "str", zero |-> FALSE]     \* "deg"
N_VAR   == [type |-> "Name", id |-> "n"]                             \* n
F_SIN      == [type |-> "Name", id |-> "sin"]                        \* sin
F_MATH_SIN == [type |-> "Attribute", attr |-> "sin"]                 \* math.sin
F_MATH_EXP == [type |-> "Attribute", attr |-> "exp"]                 \* math.exp

AuditAtoms == {C_ZERO, C_TWO, C_FLOAT, C_STR, N_VAR}
AuditFuncs == {F_SIN, F_MATH_SIN, F_MATH_EXP}

BinOp(op, left, right) == [type |-> "BinOp", op |-> op, left |-> left, right |-> right]
Call(func, args) == [type |-> "Call", func |-> func, args |-> args]

AuditExprs ==
    { BinOp(op, l, r) : op \in {"Div", "Add"}, l \in {C_TWO, N_VAR}, r \in AuditAtoms }
    \cup { Call(f, <<a>>) : f \in AuditFuncs, a \in AuditAtoms }
    \cup { Call(f, <<N_VAR, C_FLOAT>>) : f \in AuditFuncs }
    \cup { BinOp("Div", N_VAR, BinOp("Div", C_TWO, N_VAR)),          \* n / (2 / n)
           BinOp("Div", Call(F_MATH_SIN, <<C_FLOAT>>), C_TWO),       \* math.sin(1.5708) / 2
           Call(F_MATH_SIN, <<BinOp("Div", C_TWO, C_ZERO)>>),        \* math.sin(2 / 0)
           BinOp("Div", BinOp("Div", N_VAR, N_VAR), C_TWO),          \* (n / n) / 2
           BinOp("Add", C_TWO, BinOp("Div", N_VAR, C_ZERO)) }        \* 2 + n / 0

Risk(lineno, type) == [line |-> lineno, type |-> type]

\* isinstance(arg, ast.Constant) and isinstance(arg.value, int | float)
IsNumericConstant(arg) == arg.type = "Constant" /\ arg.kind \in {"int", "float"}

\* Mutant: a constant denominator is never a risk.
DivisionRisk_nonconstant_only(node) ==
    node.op = "Div" /\ node.right.type # "Constant"

\* isinstance(node.op, ast.Div) and not (isinstance(node.right, ast.Constant)
\* and node.right.value != 0)
DivisionRisk(node) ==
    node.op = "Div" /\ ~(node.right.type = "Constant" /\ ~node.right.zero)

\* isinstance(node.func, ast.Attribute) and node.func.attr in [sin, cos, tan]
\* and any(numeric constant argument)
TrigRisk(node) ==
    /\ node.func.type = "Attribute" /\ node.func.attr \in {"sin", "cos", "tan"}
    /\ \E k \in 1..Len(node.args) : IsNumericConstant(node.args[k])

\* NodeVisitor.visit: the visit_ method of the node's class, else generic_visit.
RECURSIVE Visit(_, _)
RECURSIVE VisitEach(_, _, _)
VisitEach(nodes, k, lineno) ==
    IF k > Len(nodes) THEN <<>>
    ELSE Visit(nodes[k], lineno) \o VisitEach(nodes, k + 1, lineno)

\* Mutant: visit_BinOp without its closing generic_visit.
visit_BinOp_no_generic_visit(node, lineno) ==
    IF DivisionRisk(node) THEN <<Risk(lineno, "Singularity Risk")>> ELSE <<>>

visit_BinOp(node, lineno) ==
    (IF DivisionRisk(node) THEN <<Risk(lineno, "Singularity Risk")>> ELSE <<>>)
    \o Visit(node.left, lineno) \o Visit(node.right, lineno)

visit_Call(node, lineno) ==
    (IF TrigRisk(node) THEN <<Risk(lineno, "Unit Ambiguity")>> ELSE <<>>)
    \o Visit(node.func, lineno) \o VisitEach(node.args, 1, lineno)

Visit(node, lineno) ==
    CASE node.type = "BinOp" -> visit_BinOp(node, lineno)
      [] node.type = "Call"  -> visit_Call(node, lineno)
      [] OTHER               -> <<>>

\* ScienceAuditor().visit(ast.parse(...)): the statements in order.
RECURSIVE VisitBody(_, _)
VisitBody(body, k) ==
    IF k > Len(body) THEN <<>>
    ELSE Visit(body[k], k) \o VisitBody(body, k + 1)

\* The files of an audited tree: kind "unreadable" cannot be opened, kind
\* "unparsable" makes ast.parse raise; both are caught by except Exception.
AuditTreeFiles ==
    { [name |-> "mod.py", kind |-> "regular", body |-> <<>>],
      [name |-> "mod.py", kind |-> "regular", body |-> <<BinOp("Div", C_TWO, N_VAR)>>],
      [name |-> "mod.py", kind |-> "regular",
          body |-> <<BinOp("Add", C_TWO, N_VAR), Call(F_MATH_SIN, <<C_FLOAT>>)>>],
      [name |-> "test_mod.py", kind |-> "regular", body |-> <<BinOp("Div", C_TWO, N_VAR)>>],
      [name |-> "mod.py", kind |-> "unparsable", body |-> <<>>],
      [name |-> "mod.py", kind |-> "unreadable", body |-> <<>>] }

\* "test" in py_file.name
IsTestFile(f) == f.name = "test_mod.py"

InitAudit ==
    /\ prog = "scientific_auditor" /\ pc = "scan"
    /\ a_files \in SeqsUpTo(AuditTreeFiles, MaxFiles)     \* target_dir.rglob("*.py")
    /\ a_idx = 0 /\ RISKS = <<>> /\ runs = <<>>
    /\ exit_code = -1 /\ uncaught = NoExc
    /\ FileIdle /\ ScanIdle /\ MatlabIdle /\ AnalyzeIdle /\ PassIdle

\* One audited module of up to MaxStmts statements.
InitWalk ==
    /\ prog = "scientific_auditor" /\ pc = "scan"
    /\ \E body \in SeqsUpTo(AuditExprs, MaxStmts) :
          a_files = <<[name |-> "mod.py", kind |-> "regular", body |-> body]>>
    /\ a_idx = 0 /\ RISKS = <<>> /\ runs = <<>>
    /\ exit_code = -1 /\ uncaught = NoExc
    /\ FileIdle /\ ScanIdle /\ MatlabIdle /\ AnalyzeIdle /\ PassIdle

\* One iteration of "for py_file in target_dir.rglob('*.py')".
AuditFileStep ==
    /\ prog = "scientific_auditor" /\ pc = "scan" /\ a_idx < Len(a_files)
    /\ LET f == a_files[a_idx + 1]
       IN  RISKS' = IF IsTestFile(f) \/ f.kind # "regular"
                    THEN RISKS
                    ELSE RISKS \o VisitBody(f.body, 1)
    /\ a_idx' = a_idx + 1
    /\ UNCHANGED <<prog, pc, a_files, runs, exit_code, uncaught,
                   fileVars, scanVars, matlabVars, analyzeVars, passVars>>

\* if RISKS: print and sys.exit(1); else print "[]" and return.
AuditExit ==
    /\ prog = "scientific_auditor" /\ pc = "scan" /\ a_idx = Len(a_files)
    /\ exit_code' = IF RISKS # <<>> THEN 1 ELSE 0
    /\ pc' = "exited"
    /\ UNCHANGED <<prog, auditVars, runs, uncaught,
                   fileVars, scanVars, matlabVars, analyzeVars, passVars>>

NextAudit == AuditFileStep \/ AuditExit

SpecAudit == InitAudit /\ [][NextAudit]_vars

SpecWalk == InitWalk /\ [][NextAudit]_vars

(***************************************************************************)
(* SpecRuleSets: every rule set applied to one file.  A *.py file is given *)
(* to check_file and the rule functions of both Python checkers and, as    *)
(* the module ast.parse makes of it, to the ScienceAuditor; a *.m file is  *)
(* given to _analyze_matlab_file.  A file of zero bytes has no lines       *)
(* ("".splitlines() is []), parses to a module with an empty body, and as  *)
(* a *.m file is the single empty line "".split("\n") makes of it.         *)
(***************************************************************************)
RulePyFiles == { f \in Files : f.kind = "regular" /\ Len(f.lines) <= 2 }
RuleModules ==
    { m \in AuditTreeFiles : m.kind \in {"regular", "unparsable"} /\ m.name = "mod.py" }
RuleMLines  == { <<l>> : l \in MScanLines }

InitRuleSets ==
    /\ prog = "file" /\ pc = "call"
    /\ file \in RulePyFiles
    /\ \E m \in RuleModules :
          /\ a_files = <<m>>
          /\ m.kind = "unparsable" <=> ParseOutcome(file.lines) # "ok"
          /\ m.kind = "regular" => (m.body = <<>> <=> file.lines = <<>>)
    /\ m_lines \in RuleMLines
    /\ excl = ExclNotCalled /\ cf = CfNotCalled /\ direct = NoDirect /\ cq = CqNotCalled
    /\ a_idx = 0 /\ RISKS = <<>>
    /\ m_i = 0 /\ nesting_level = 0 /\ in_function = FALSE /\ m_issues = <<>>
    /\ exit_code = -1 /\ uncaught = NoExc
    /\ ScanIdle /\ MatlabIdle /\ PassIdle /\ runs = <<>>

\* check_file and the three rule functions of code_quality_check.py.
CallCqRuleSets ==
    /\ prog = "file" /\ ~cq.called
    /\ ReadText(file).exc = NoExc
    /\ LET lines == ReadText(file).ret
           a == cq_check_ast_issues(lines, file)
           c == cq_check_file(file)
       IN  cq' = [called |-> TRUE,
                  bp |-> cq_check_banned_patterns(lines, file),
                  mn |-> cq_check_magic_numbers(lines, file),
                  ast |-> a.ret, astexc |-> a.exc,
                  cf |-> c.ret, cfexc |-> c.exc]
    /\ UNCHANGED <<prog, pc, file, excl, cf, direct, exit_code, uncaught,
                   scanVars, matlabVars, analyzeVars, passVars, auditVars, runs>>

\* ScienceAuditor().visit(ast.parse(source.read())) inside main's
\* try/except Exception: a file that does not parse leaves RISKS as it is.
CallWalker ==
    /\ prog = "file" /\ a_files # <<>> /\ a_idx = 0
    /\ RISKS' = IF a_files[1].kind = "regular"
                THEN RISKS \o VisitBody(a_files[1].body, 1)
                ELSE RISKS
    /\ a_idx' = 1
    /\ UNCHANGED <<prog, pc, a_files, exit_code, uncaught, runs,
                   fileVars, scanVars, matlabVars, analyzeVars, passVars>>

\* self._analyze_matlab_file(m_file)
CallAnalyzeMatlabFile ==
    /\ prog = "file" /\ m_lines # <<>> /\ m_i = 0
    /\ LET st == AnalyzeUpTo(m_lines, Len(m_lines))
       IN  /\ nesting_level' = st.nesting_level
           /\ in_function' = st.in_function
           /\ m_issues' = _analyze_matlab_file([readable |-> TRUE, lines |-> m_lines])
    /\ m_i' = Len(m_lines)
    /\ UNCHANGED <<prog, pc, m_lines, exit_code, uncaught, runs,
                   fileVars, scanVars, matlabVars, passVars, auditVars>>

NextRuleSets ==
    \/ CallCheckFile \/ CallRulesDirectly \/ CallCqRuleSets
    \/ CallWalker \/ CallAnalyzeMatlabFile

SpecRuleSets == InitRuleSets /\ [][NextRuleSets]_vars

(***************************************************************************)
(* SpecCheckFile: check_file of both Python checkers on one file of up to  *)
(* MaxLines lines.                                                         *)
(***************************************************************************)
NextCheckFile == CallCheckFile \/ CallCqRuleSets

SpecCheckFile == InitFile /\ [][NextCheckFile]_vars

(***************************************************************************)
(* SpecDefs: the structural pass of both checkers on files of function     *)
(* definitions, with and without a return annotation.                      *)
(***************************************************************************)
DefLines == {L_PLAIN, L_DEF, L_DEF_HINT, L_INIT}

InitDefs ==
    /\ prog = "file" /\ pc = "call"
    /\ file \in [name : Names, kind : {"regular"}, lines : SeqsUpTo(DefLines, MaxLines)]
    /\ excl = ExclNotCalled /\ cf = CfNotCalled /\ direct = NoDirect /\ cq = CqNotCalled
    /\ exit_code = -1 /\ uncaught = NoExc
    /\ ScanIdle /\ MatlabIdle /\ AnalyzeIdle /\ PassIdle /\ AuditIdle /\ runs = <<>>

NextDefs == CallRulesDirectly \/ CallCqRuleSets

SpecDefs == InitDefs /\ [][NextDefs]_vars

(***************************************************************************)
(* Spec: one run of one checker's main().                                  *)
(***************************************************************************)
Init == InitScan \/ InitMatlab \/ InitCode \/ InitAudit
Next == NextScan \/ NextMatlab \/ NextCode \/ NextAudit
Spec == Init /\ [][Next]_vars

(***************************************************************************)
(* SpecRerun: a caller runs a checker again over the unchanged tree, in    *)
(* the same interpreter and on the same checker object, or in fresh ones.  *)
(* runs holds the reports of the runs that ended before the current one.   *)
(***************************************************************************)
\* What the run that has just ended reported.
RunReport ==
    CASE prog = "scientific_auditor" ->
             [issues |-> RISKS, passed |-> (RISKS = <<>>)]
      [] prog = "matlab_quality_check" ->
             [issues |-> results.issues, passed |-> results.passed]
      [] OTHER ->
             [issues |-> all_issues, passed |-> (all_issues = <<>>)]

\* scientific_auditor.main() is called again.  In the same interpreter the
\* module-level RISKS is the list the first call appended to.
AuditMainAgain ==
    /\ prog = "scientific_auditor" /\ pc = "exited" /\ Len(runs) + 1 < MaxRuns
    /\ runs' = Append(runs, RunReport)
    /\ \E fresh \in BOOLEAN : RISKS' = IF fresh THEN <<>> ELSE RISKS
    /\ a_idx' = 0 /\ pc' = "scan" /\ exit_code' = -1
    /\ UNCHANGED <<prog, a_files, uncaught,
                   fileVars, scanVars, matlabVars, analyzeVars, passVars>>

\* run_all_checks is called again, on the same MATLABQualityChecker (its
\* results dictionary is the one the first call wrote) or on a new one.
RunAllChecksAgain ==
    /\ prog = "matlab_quality_check" /\ pc = "exited" /\ Len(runs) + 1 < MaxRuns
    /\ runs' = Append(runs, RunReport)
    /\ \E fresh \in BOOLEAN : results' = IF fresh THEN NewResults ELSE results
    /\ attempted' = <<>> /\ matlab_results' = NoResult
    /\ pc' = "run_all_checks" /\ exit_code' = -1
    /\ UNCHANGED <<prog, uncaught, project_root_exists, m_files, config_exists,
                   cmd_outcome, strict,
                   fileVars, scanVars, analyzeVars, passVars, auditVars>>

\* quality_check.main() is called again: every name it uses is a local.
\* The tree is listed again; both filters test one file at a time, so the
\* files they dropped are dropped again and the listing restarts from the
\* files the first run kept.
ScanMainAgain ==
    /\ prog = "quality_check" /\ pc = "exited" /\ Len(runs) + 1 < MaxRuns
    /\ runs' = Append(runs, RunReport)
    /\ idx' = 0 /\ kept' = <<>> /\ all_issues' = <<>> /\ checked' = {}
    /\ pc' = "dirfilter" /\ exit_code' = -1
    /\ UNCHANGED <<prog, python_files, argv, traversed, uncaught,
                   fileVars, matlabVars, analyzeVars, passVars, auditVars>>

InitRerun == InitScan \/ InitMatlab \/ InitAudit
NextRerun ==
    \/ NextScan \/ NextMatlab \/ NextAudit
    \/ AuditMainAgain \/ RunAllChecksAgain \/ ScanMainAgain
SpecRerun == InitRerun /\ [][NextRerun]_vars

(***************************************************************************)
(* Claims about the functions of scripts/quality_check.py (SpecFile).      *)
(***************************************************************************)

\* C1: whenever should_exclude_file returns true for a file, check_file
\* returns an empty issue list for that file (and raises nothing).
C1_ExcludedFileHasNoIssues ==
    (excl.called /\ cf.called /\ excl.exc = NoExc /\ excl.ret)
        => (cf.exc = NoExc /\ cf.ret = <<>>)

\* C1 witness: an excluded, readable file whose lines hold a banned pattern
\* has been through should_exclude_file and check_file.
C1_Witness ==
    /\ excl.called /\ cf.called /\ excl.ret
    /\ file.kind = "regular"
    /\ BannedFrom(file.lines, 1) # <<>>
    /\ ~Contains(file.lines, _QUALITY_CHECK_SCRIPT_MARKER)

\* C2 (as claimed): a rule function called directly, is_excluded at its
\* default, on a file whose name or path identity matches the exclusion
\* criteria returns no issue.
C2_DirectRulesSilentOnExcludedPath ==
    (direct.called /\ (_check_filename(file) \/ _check_absolute_path(file).ret))
        => (direct.bp = <<>> /\ direct.mn = <<>> /\ direct.ast = <<>>)

Checks == <<"filename", "path", "content">>
Matches(c, f) ==
    CASE c = "filename" -> _check_filename(f)
      [] c = "path"     -> _check_absolute_path(f).ret
      [] c = "content"  -> _check_content_signature(f).ret

\* C8: should_exclude_file returns true exactly when one of the three checks
\* matches; the checks run in the order filename, path, content, and none
\* runs after a check has matched.
C8_AnyCheckInOrderShortCircuit ==
    excl.called =>
        /\ excl.exc = NoExc => (excl.ret <=> \E k \in 1..3 : Matches(Checks[k], file))
        /\ Len(excl.calls) \in 1..3
        /\ \A k \in 1..Len(excl.calls) :
              /\ excl.calls[k] = Checks[k]
              /\ k < Len(excl.calls) => ~Matches(Checks[k], file)
        /\ (excl.exc = NoExc /\ Len(excl.calls) < 3)
              => Matches(Checks[Len(excl.calls)], file)

\* C8 witness: the path check matched, so the content check was not evaluated
\* although the content holds the signature.
C8_Witness ==
    /\ excl.called /\ excl.ret
    /\ excl.calls = <<"filename", "path">>
    /\ _check_content_signature(file).ret

\* C9 (as claimed): when resolving or comparing the path raises, the path
\* check counts as no match, the content check is evaluated, and no error
\* leaves should_exclude_file.
C9_ResolutionErrorNeverPropagates ==
    (excl.called /\ Len(excl.calls) >= 2 /\ PathCheckBody(file).exc # NoExc)
        => (excl.exc = NoExc /\ excl.calls = <<"filename", "path", "content">>)

(***************************************************************************)
(* Claims about the line loop of _analyze_matlab_file (SpecAnalyze).       *)
(***************************************************************************)
\* opens - closes over lines a..b: non-comment lines that start with a
\* nesting-opening keyword, minus those that start with 'end'.
Net(lines, a, b) ==
    Cardinality({k \in a..b : ~IsComment(lines[k]) /\ OpensNesting(lines[k])})
    - Cardinality({k \in a..b : ~IsComment(lines[k]) /\ ClosesNesting(lines[k])})

\* C6 (as claimed): after every line the counter is >= 0 and equals
\* max(0, opens - closes) over the lines scanned so far.
C6_CounterIsClampedNet ==
    prog = "analyze" =>
        /\ nesting_level >= 0
        /\ nesting_level = Max(0, Net(m_lines, 1, m_i))

\* C6 (amended): after every line the counter is >= 0 and equals the largest
\* value of opens - closes over the trailing runs of the lines scanned so far
\* (the empty run included): the clamp acts at each 'end', not on the total.
\* It equals opens - closes when no prefix has more closes than opens.
C6_CounterIsRunningClamp ==
    prog = "analyze" =>
        /\ nesting_level >= 0
        /\ \A j \in 0..m_i : nesting_level >= Net(m_lines, j + 1, m_i)
        /\ \E j \in 0..m_i : nesting_level = Net(m_lines, j + 1, m_i)
        /\ (\A k \in 0..m_i : Net(m_lines, 1, k) >= 0)
              => nesting_level = Net(m_lines, 1, m_i)

\* C6 witness: an 'end' was scanned at depth 0 and an opening line after it,
\* so the counter exceeds max(0, opens - closes).
C6_Witness ==
    /\ prog = "analyze" /\ m_i >= 2
    /\ \E k \in 1..m_i : Net(m_lines, 1, k) < 0
    /\ nesting_level > Max(0, Net(m_lines, 1, m_i))

(***************************************************************************)
(* Claims about one run of a checker's main() (Spec).                      *)
(***************************************************************************)
\* "No scanned file produced an issue": passed, for the Python checker.
ScanPassed == \A j \in 1..Len(python_files) : check_file(python_files[j]).ret = <<>>

CqScanPassed == \A j \in 1..Len(python_files) : cq_check_file(python_files[j]).ret = <<>>

\* C3: the exit code is 0 exactly when the report's passed flag is true, and
\* under --strict only if the report also lists no issue; it is 1 otherwise.
\* For the Python checker passed means that no scanned file produced an issue.
C3_ExitCodeFollowsPassed ==
    /\ (prog = "matlab_quality_check" /\ pc = "exited") =>
          exit_code = IF results.passed /\ (strict => results.issues = <<>>) THEN 0 ELSE 1
    /\ (prog = "quality_check" /\ pc = "exited") =>
          exit_code = IF ScanPassed THEN 0 ELSE 1
    /\ (prog = "code_quality_check" /\ pc = "exited") =>
          exit_code = IF CqScanPassed THEN 0 ELSE 1

\* C3 witness: a strict MATLAB run has exited with code 1 on a report that
\* lists issues.
C3_Witness ==
    /\ prog = "matlab_quality_check" /\ pc = "exited" /\ strict
    /\ results.issues # <<>> /\ exit_code = 1

\* C4 (as claimed): in every report run_all_checks returns, passed is true
\* if and only if the report's issues sequence is empty.
C4_PassedIffNoIssues ==
    (prog = "matlab_quality_check" /\ pc \in {"report", "exited"})
        => (results.passed <=> results.issues = <<>>)

\* An error is raised while f is analysed: by the exclusion checks, by
\* reading or decoding the file, or by parsing it.
Failing(f) ==
    \/ should_exclude_file(f).exc # NoExc
    \/ /\ ~should_exclude_file(f).ret
       /\ \/ ReadText(f).exc # NoExc
          \/ ParseOutcome(f.lines) # "ok"

\* f is not excluded and its own analysis raises nothing that is not caught.
Analysable(f) ==
    /\ should_exclude_file(f).exc = NoExc /\ ~should_exclude_file(f).ret
    /\ check_file(f).exc = NoExc

\* C5 (as claimed): when the scan has ended, every analysable file that
\* follows a failing file in the candidate list has been checked and its
\* issues are in the report.
C5_FailingFileDoesNotStopScan ==
    (prog = "quality_check" /\ pc \in {"exited", "crashed"}) =>
        \A i, j \in 1..Len(python_files) :
            (i < j /\ Failing(python_files[i]) /\ Analysable(python_files[j]))
                => /\ j \in checked
                   /\ check_file(python_files[j]).ret # <<>>
                         => \E n \in 1..Len(all_issues) :
                               all_issues[n] = <<j, check_file(python_files[j]).ret>>

AbsentOrTimeout == {"FileNotFoundError", "TimeoutExpired"}

\* C10: when every candidate command is absent or times out,
\* run_matlab_quality_checks has tried all three commands and returns the
\* result of static analysis, without an 'error' entry; the report and the
\* exit code are decided by the statically found issues alone.
C10_AbsentToolchainFallsBack ==
    (/\ prog = "matlab_quality_check" /\ config_exists
     /\ \A k \in 1..Len(commands) : cmd_outcome[k] \in AbsentOrTimeout
     /\ pc \in {"got_results", "report", "exited"}
     /\ matlab_results # NoResult)
    => LET found == StaticIssuesFrom(m_files, 1)
       IN  /\ "error" \notin matlab_results.keys
           /\ matlab_results.method = "static_analysis"
           /\ matlab_results.issues = found
           /\ matlab_results.passed = (found = <<>>)
           /\ attempted = <<1, 2, 3>>
           /\ pc \in {"report", "exited"} =>
                 (results.issues = found /\ results.passed = (found = <<>>))
           /\ pc = "exited" => exit_code = IF found = <<>> THEN 0 ELSE 1

\* C10 witness: a run whose commands were absent or timed out has exited on
\* the statically found issues.
C10_Witness ==
    /\ prog = "matlab_quality_check" /\ pc = "exited" /\ config_exists
    /\ \A k \in 1..Len(commands) : cmd_outcome[k] \in AbsentOrTimeout
    /\ \E k \in 1..Len(commands) : cmd_outcome[k] = "TimeoutExpired"
    /\ \E k \in 1..Len(commands) : cmd_outcome[k] = "FileNotFoundError"
    /\ results.issues # <<>> /\ exit_code = 1

\* The files whose check has returned, in list order.
CheckedFiles == [j \in 1..Cardinality(checked) |-> python_files[j]]

\* C11 (as claimed): a Python checker started with file arguments checks
\* exactly those files, walks no directory and applies no denylist; started
\* without, it walks the tree and checks no file with a denylisted segment.
C11_ExplicitFilesOrFilteredTree ==
    (prog \in {"quality_check", "code_quality_check"} /\ pc = "exited") =>
        IF Len(argv) > 0
        THEN ~traversed /\ CheckedFiles = argv
        ELSE traversed /\ \A j \in checked : ~InExcludedDir(python_files[j])

(***************************************************************************)
(* Claims about the pass-context classifier (SpecPass).                    *)
(***************************************************************************)
PassReported(issues, n) ==
    \E k \in 1..Len(issues) :
        issues[k] = Issue(n, "Empty pass statement - consider adding logic or comment")

\* C12 (as claimed): check_banned_patterns of scripts/quality_check.py never
\* reports a pass whose line directly above is a class header, and always
\* reports a pass whose line directly above is a function header, whatever
\* the function's name and the lines before the header.
C12_ClassPassSilentFunctionPassReported ==
    (prog = "pass" /\ p_result.called) =>
        \A n \in 2..Len(p_lines) :
            IsPass(p_lines[n]) =>
                /\ StartsClass(p_lines[n - 1]) => ~PassReported(p_result.issues, n)
                /\ StartsDef(p_lines[n - 1]) => PassReported(p_result.issues, n)

(***************************************************************************)
(* Claims about the numeric-risk walker (SpecWalk: one audited module).    *)
(***************************************************************************)
\* The module has been visited.
Walked == prog = "scientific_auditor" /\ Len(a_files) = 1 /\ a_idx = 1

RiskReported(lineno, type) == \E k \in 1..Len(RISKS) : RISKS[k] = Risk(lineno, type)

IsLeaf(node) == node.type \in {"Constant", "Name"}

\* Statement k is one division of two leaves.
IsSimpleDivision(e) ==
    e.type = "BinOp" /\ e.op = "Div" /\ IsLeaf(e.left) /\ IsLeaf(e.right)

\* C13 (as claimed): a division by the literal 0 is not reported; a division
\* by a variable is reported as Singularity Risk.
C13_LiteralZeroNotReported ==
    Walked =>
        \A k \in 1..Len(a_files[1].body) :
            LET e == a_files[1].body[k]
            IN  IsSimpleDivision(e) =>
                    /\ e.right = C_ZERO => ~RiskReported(k, "Singularity Risk")
                    /\ e.right.type = "Name" => RiskReported(k, "Singularity Risk")

\* C13 (amended): a division by the literal 0 and a division by a variable
\* are both reported as Singularity Risk; a division by a literal constant
\* other than 0 is not reported.
C13_OnlyNonZeroLiteralNotReported ==
    Walked =>
        \A k \in 1..Len(a_files[1].body) :
            LET e == a_files[1].body[k]
            IN  IsSimpleDivision(e) =>
                    /\ e.right = C_ZERO => RiskReported(k, "Singularity Risk")
                    /\ e.right.type = "Name" => RiskReported(k, "Singularity Risk")
                    /\ (e.right.type = "Constant" /\ ~e.right.zero)
                          => ~RiskReported(k, "Singularity Risk")

\* C13 witness: a module with n / 0, reported, and n / 2, not reported.
C13_Witness ==
    /\ Walked /\ pc = "exited"
    /\ a_files[1].body = <<BinOp("Div", N_VAR, C_ZERO), BinOp("Div", N_VAR, C_TWO)>>
    /\ RISKS = <<Risk(1, "Singularity Risk")>>

\* Statement k is one call of sin, by bare name or as an attribute, on leaves.
IsSimpleSinCall(e) ==
    /\ e.type = "Call" /\ e.func \in {F_SIN, F_MATH_SIN}
    /\ \A j \in 1..Len(e.args) : IsLeaf(e.args[j])

\* C14 (as claimed): a call of sin with at least one literal numeric argument
\* is reported as Unit Ambiguity, called by bare name or as an attribute; a
\* call whose arguments are all non-literal is not reported.
C14_TrigLiteralReportedBareOrAttribute ==
    Walked =>
        \A k \in 1..Len(a_files[1].body) :
            LET e == a_files[1].body[k]
            IN  IsSimpleSinCall(e) =>
                    /\ (\E j \in 1..Len(e.args) : IsNumericConstant(e.args[j]))
                          => RiskReported(k, "Unit Ambiguity")
                    /\ (\A j \in 1..Len(e.args) : e.args[j].type = "Name")
                          => ~RiskReported(k, "Unit Ambiguity")


(***************************************************************************)
(* C15, C16: the magic-number and workspace-clearing rules of              *)
(* _analyze_matlab_file.                                                    *)
(***************************************************************************)
MatlabReported(k, m) == \E j \in 1..Len(m_issues) : m_issues[j] = Issue(k, m)

\* C15: a scanned non-comment line with the literal 9.81 in code is reported
\* with the gravitational-acceleration message, and a scanned line where
\* 9.81 stands only after the trailing '%' is not reported.
C15_GravityInCodeNotInTrailingComment ==
    prog = "analyze" =>
        \A k \in 1..m_i :
            /\ m_lines[k] = M_GRAV => MatlabReported(k, GravityMessage)
            /\ m_lines[k] = M_GRAV_COMMENT => ~MatlabReported(k, GravityMessage)

\* The inside-function flag the clear checks of line k read.
InsideAt(k) == AnalyzeUpTo(m_lines, k).in_function

\* C16: a scanned 'clear all' line is reported whether or not the scanner is
\* inside a function; a plain 'clear', 'clc' or 'close all' is reported only
\* on a line scanned while the inside-function flag is true.
C16_ClearAllAlwaysOthersInsideFunction ==
    prog = "analyze" =>
        \A k \in 1..m_i :
            /\ m_lines[k] = M_CLEARALL => MatlabReported(k, ClearAllMessage)
            /\ \A m \in {ClearMessage, ClcMessage, CloseAllMessage} :
                   MatlabReported(k, m) => InsideAt(k)


\* C17: a second run over the unchanged tree, in the same or in a fresh
\* checker, ends with the report of the first: the same issues in the same
\* order and the same passed value.
C17_SecondRunSameReport ==
    (pc = "exited" /\ runs # <<>>) =>
        \A r \in 1..Len(runs) : runs[r] = RunReport


(***************************************************************************)
(* C18: a tree scan end to end.                                            *)
(***************************************************************************)
\* f is a file with no finding: one plain line, outside the denylist.
Conformant(f) == f = ScanContents_plain @@ [dir |-> "pkg"]

\* f is otherwise conformant and holds a bare TODO comment.
BareTodo(f) ==
    f \in { c @@ [dir |-> "pkg"] : c \in {ScanContents_todo, ScanContents_todo_line2} }

\* The line of the TODO comment in f.
TodoLine(f) == CHOOSE n \in 1..Len(f.lines) : f.lines[n] = L_TODO

\* The scanned directory holds one conformant file and one with a bare TODO.
TwoFileTree ==
    /\ prog \in {"quality_check", "code_quality_check"} /\ traversed
    /\ pc \in {"check", "exited", "crashed"}
    /\ Len(python_files) = 2
    /\ \E i, j \in 1..2 : Conformant(python_files[i]) /\ BareTodo(python_files[j])

\* C18: the scan of a directory with one conformant file and one with a bare
\* TODO comment does not crash, and ends with exit code 1 and exactly one
\* issue, attached to the file with the TODO and carrying the TODO's line.
C18_OneTodoOneIssueExitOne ==
    TwoFileTree =>
        /\ pc # "crashed"
        /\ pc = "exited" =>
              /\ exit_code = 1
              /\ Len(all_issues) = 1
              /\ LET j == all_issues[1][1]
                 IN  /\ BareTodo(python_files[j])
                     /\ all_issues[1][2] =
                           <<Issue(TodoLine(python_files[j]), "TODO placeholder found")>>

\* C18 witness: such a scan has ended, and the TODO was on line 2 of the
\* file listed first.
C18_Witness ==
    /\ TwoFileTree /\ pc = "exited" /\ exit_code = 1
    /\ python_files[1] = ScanContents_todo_line2 @@ [dir |-> "pkg"]
    /\ all_issues = << <<1, <<Issue(2, "TODO placeholder found")>> >> >>


(***************************************************************************)
(* C19: the rule sets on an empty file (SpecRuleSets).                     *)
(***************************************************************************)
EmptyPyFile == file.kind = "regular" /\ file.lines = <<>>

\* C19: for a file of zero bytes every rule set returns no issue and raises
\* no error: the three rule functions and check_file of both Python
\* checkers, the numeric-risk walker, and _analyze_matlab_file.
C19_EmptyFileNoIssuesNoError ==
    prog = "file" =>
        /\ (EmptyPyFile /\ direct.called) =>
              /\ direct.bp = <<>> /\ direct.mn = <<>>
              /\ direct.ast = <<>> /\ direct.astexc = NoExc
        /\ (EmptyPyFile /\ cf.called) => (cf.ret = <<>> /\ cf.exc = NoExc)
        /\ (EmptyPyFile /\ cq.called) =>
              /\ cq.bp = <<>> /\ cq.mn = <<>>
              /\ cq.ast = <<>> /\ cq.astexc = NoExc
              /\ cq.cf = <<>> /\ cq.cfexc = NoExc
        /\ (a_idx = 1 /\ a_files[1].body = <<>>) => RISKS = <<>>
        /\ (m_i = 1 /\ m_lines = <<M_EMPTY>>) => m_issues = <<>>

\* C19 witness: every rule set has been applied to an empty file.
C19_Witness ==
    /\ prog = "file" /\ EmptyPyFile /\ file.name = "mod.py"
    /\ direct.called /\ cf.called /\ cq.called
    /\ a_idx = 1 /\ a_files[1].body = <<>>
    /\ m_i = 1 /\ m_lines = <<M_EMPTY>>
    /\ cq.cf = <<>> /\ RISKS = <<>> /\ m_issues = <<>>


\* run_matlab_quality_checks has returned and no command it tried exited
\* with 0.
ToolchainAttemptFailed ==
    /\ prog = "matlab_quality_check" /\ pc \in {"got_results", "report", "exited"}
    /\ config_exists /\ attempted # <<>>
    /\ \A n \in 1..Len(attempted) : cmd_outcome[attempted[n]] # "rc0"

\* C20 (as claimed): when the config script exists and the toolchain attempt
\* fails for any reason, run_matlab_quality_checks returns the result of
\* static analysis and never an 'error' result.
C20_FailedToolchainAlwaysFallsBack ==
    ToolchainAttemptFailed =>
        /\ "error" \notin matlab_results.keys
        /\ matlab_results = StaticResult(m_files)


\* C21: the is_legitimate_pass_context of scripts/quality_check.py and the
\* one of tools/code_quality_check.py return the same verdict for every list
\* of lines and every line number.
C21_DuplicatesAgree ==
    (prog = "pass" /\ p_verdict.called) => p_verdict.ret = p_verdict.cq_ret


(***************************************************************************)
(* C22: the look-back windows of is_legitimate_pass_context (SpecWindow).  *)
(***************************************************************************)
\* The call was made for the pass that ends the list.
AtPass ==
    /\ prog = "pass" /\ p_verdict.called
    /\ p_verdict.line_num = Len(p_lines) /\ IsPass(p_lines[Len(p_lines)])

\* q stands d lines above the pass and every other line above it is plain.
Sole(q, d) ==
    LET n == Len(p_lines)
    IN  /\ d \in 1..(n - 1) /\ p_lines[n - d] = q
        /\ \A i \in 1..(n - 1) : i # n - d => p_lines[i] = L_PLAIN

\* Both checkers call the pass legitimate.
BothLegitimate == p_verdict.ret /\ p_verdict.cq_ret
NeitherLegitimate == ~p_verdict.ret /\ ~p_verdict.cq_ret

\* A lone context line makes the pass legitimate up to the given distance
\* and not beyond: a class header, a line that holds "except" and is no
\* block header, a line that starts with "with " and is no block header.
WindowVerdicts(class_d, except_d, with_d) ==
    AtPass =>
        \A d \in 1..(Len(p_lines) - 1) :
            /\ Sole(P_CLASS, d) =>
                  IF d <= class_d THEN BothLegitimate ELSE NeitherLegitimate
            /\ Sole(P_EXC_NAME, d) =>
                  IF d <= except_d THEN BothLegitimate ELSE NeitherLegitimate
            /\ Sole(P_WITH_TAIL, d) =>
                  IF d <= with_d THEN BothLegitimate ELSE NeitherLegitimate

\* The last k lines of the list.
LastLines(lines, k) ==
    IF Len(lines) <= k THEN lines ELSE SubSeq(lines, Len(lines) - k + 1, Len(lines))

\* The verdict is the verdict for the pass and the class_d lines above it.
NoFartherInfluence(class_d) ==
    AtPass =>
        LET w == LastLines(p_lines, class_d + 1)
        IN  /\ p_verdict.ret = is_legitimate_pass_context(w, Len(w))
            /\ p_verdict.cq_ret = cq_is_legitimate_pass_context(w, Len(w))

\* Every index the three loops can reach is an index of the list.
WindowIndicesInList ==
    (prog = "pass" /\ p_verdict.called /\ p_verdict.line_num \in 1..Len(p_lines)) =>
        (ClassRange(p_verdict.line_num) \cup TryExceptRange(p_verdict.line_num)
            \cup ContextManagerRange(p_verdict.line_num)) \subseteq 1..Len(p_lines)

\* C22 (as claimed): for a pass at line n the lines n-1 down to n-10 are
\* consulted for a class header, n-1 down to n-5 for an exception-handling
\* line and n-1 down to n-3 for a resource-scope line; a qualifying line at
\* distance 10, 5 or 3 still makes the pass legitimate, no line farther away
\* influences the verdict and no index outside the list is read.
C22_WindowsTenFiveThree ==
    WindowVerdicts(10, 5, 3) /\ NoFartherInfluence(10) /\ WindowIndicesInList

\* What the loops do: their windows are n-1 down to n-9, n-1 down to n-4 and
\* n-1 down to n-2; a qualifying line at distance 9, 4 or 2 still makes the
\* pass legitimate, one at distance 10, 5 or 3 does not, no line farther
\* than 9 above the pass influences the verdict and no index outside the
\* list is read.
WindowsNineFourTwo ==
    WindowVerdicts(9, 4, 2) /\ NoFartherInfluence(9) /\ WindowIndicesInList

\* C22 witness: a class header ten lines above the pass, with plain lines
\* in between, did not make the pass legitimate.
C22_Witness ==
    /\ AtPass /\ Len(p_lines) = 12 /\ Sole(P_CLASS, 10)
    /\ NeitherLegitimate


(***************************************************************************)
(* C23: the inside-function flag and the nesting counter (SpecAnalyze).    *)
(***************************************************************************)
\* One line of the file is scanned in this step.
ScansOneLine == prog = "analyze" /\ m_i' = m_i + 1

\* What one scanned line does to the flag and the counter.
FlagStep ==
    ScansOneLine =>
        LET l == m_lines[m_i + 1]
        IN  /\ l = M_FUNC => in_function'
            /\ (in_function /\ ~in_function') => (nesting_level >= 1 /\ nesting_level' = 0)
            /\ (nesting_level >= 1 /\ nesting_level' = 0) => ~in_function'
            /\ (~in_function /\ in_function') => l = M_FUNC
            /\ l \in {M_COMMENT, M_TODO, M_EMPTY} =>
                  (in_function' = in_function /\ nesting_level' = nesting_level)

\* C23: the flag becomes true on a non-comment function header and becomes
\* false exactly when the counter returns to zero; after every line the flag
\* is true only if the counter is at least 1; comment lines and empty lines
\* change neither the flag nor the counter.
C23_FlagFollowsCounter ==
    [](prog = "analyze" => (in_function => nesting_level >= 1)) /\ [][FlagStep]_vars

\* C23 witness: a function was entered and left, and a comment line scanned
\* after it.
C23_Witness ==
    /\ prog = "analyze" /\ m_i = 4
    /\ m_lines = <<M_FUNC, M_COMMENT, M_END, M_COMMENT>>
    /\ ~in_function /\ nesting_level = 0


(***************************************************************************)
(* C24: the order of the issues check_file returns (SpecCheckFile).        *)
(***************************************************************************)
BannedPatternMsgs ==
    {"TODO placeholder found", "Empty pass statement - consider adding logic or comment"}
MagicNumberMsgs == {"Define GRAVITY_M_S2 constant"}
StructuralMsgs ==
    {"Function 'should_exclude_file' missing docstring",
     "Function 'should_exclude_file' missing return type hint", "Syntax error"}

\* 1: banned-pattern issue, 2: magic-number issue, 3: structural issue.
RuleGroup(issue) ==
    CASE issue.msg \in BannedPatternMsgs -> 1
      [] issue.msg \in MagicNumberMsgs   -> 2
      [] issue.msg \in StructuralMsgs    -> 3
      [] OTHER                           -> 0       \* "Error reading file"

RuleOrdered(issues) ==
    \A i, j \in 1..Len(issues) :
        i < j =>
            /\ RuleGroup(issues[i]) <= RuleGroup(issues[j])
            /\ (RuleGroup(issues[i]) = RuleGroup(issues[j]) /\ RuleGroup(issues[i]) \in {1, 2})
                  => issues[i].line <= issues[j].line

\* C24: in the list check_file returns, every banned-pattern issue precedes
\* every magic-number issue and every magic-number issue precedes every
\* structural issue; within the banned-pattern group and within the
\* magic-number group the lines do not decrease.  Both checkers.
C24_BannedThenMagicThenStructural ==
    prog = "file" =>
        /\ cf.called => RuleOrdered(cf.ret)
        /\ cq.called => RuleOrdered(cq.cf)

\* C24 witness: a file with a magic number on line 1 and a TODO on line 2:
\* the TODO issue of line 2 comes before the magic-number issue of line 1.
C24_Witness ==
    /\ prog = "file" /\ cf.called /\ cq.called
    /\ file.lines = <<L_MAGIC, L_TODO>>
    /\ cf.ret = <<Issue(2, "TODO placeholder found"), Issue(1, "Define GRAVITY_M_S2 constant")>>
    /\ cq.cf = cf.ret


(***************************************************************************)
(* C25: a file that does not parse (SpecRuleSets).                         *)
(***************************************************************************)
Unparsable == file.kind = "regular" /\ ParseOutcome(file.lines) # "ok"

SyntaxIssue == Issue(0, "Syntax error")

\* check_file returns [] before any rule runs: should_exclude_file, or the
\* content test at the top of its try block.
SkippedAsOwnScript(f) ==
    \/ should_exclude_file(f).ret
    \/ Contains(f.lines, _QUALITY_CHECK_SCRIPT_MARKER)
    \/ Contains(f.lines, T_TABLE) /\ Contains(f.lines, T_TITLE)

\* C25 (as claimed): when the content cannot be parsed, the structural pass
\* reports exactly one issue, at line 0, and raises nothing; check_file
\* still reports the banned-pattern and magic-number issues of the raw text
\* before it; the numeric-risk walker of the auditor likewise records
\* exactly one issue, at line 0.
C25_ParseFailureIsOneIssueAtLineZero ==
    (prog = "file" /\ Unparsable) =>
        /\ direct.called => (direct.astexc = NoExc /\ direct.ast = <<SyntaxIssue>>)
        /\ (cf.called /\ ~SkippedAsOwnScript(file)) =>
              /\ cf.exc = NoExc
              /\ cf.ret = check_banned_patterns(file.lines, file, FALSE)
                             \o check_magic_numbers(file.lines, file, FALSE)
                             \o <<SyntaxIssue>>
        /\ a_idx = 1 => (Len(RISKS) = 1 /\ RISKS[1].line = 0)


\* What the code does on a SyntaxError: both passes of the checker behave
\* as claimed, and the walker's caller records nothing for the file.
SyntaxErrorHandling ==
    (prog = "file" /\ file.kind = "regular" /\ ParseOutcome(file.lines) = "SyntaxError") =>
        /\ direct.called => (direct.astexc = NoExc /\ direct.ast = <<SyntaxIssue>>)
        /\ (cf.called /\ ~SkippedAsOwnScript(file)) =>
              /\ cf.exc = NoExc
              /\ cf.ret = check_banned_patterns(file.lines, file, FALSE)
                             \o check_magic_numbers(file.lines, file, FALSE)
                             \o <<SyntaxIssue>>
        /\ a_idx = 1 => RISKS = <<>>

\* A file with a TODO line and an unclosed bracket: check_file has returned
\* the TODO issue followed by the syntax issue, and the walker's caller has
\* gone over the module and recorded nothing.
C25_Witness ==
    /\ prog = "file" /\ file.kind = "regular"
    /\ file.lines = <<L_TODO, L_TABLE>>
    /\ ~SkippedAsOwnScript(file)
    /\ cf.called /\ cf.ret = <<Issue(1, "TODO placeholder found"), SyntaxIssue>>
    /\ a_idx = 1 /\ a_files[1].kind = "unparsable" /\ RISKS = <<>>


(***************************************************************************)
(* C26: one Singularity Risk per division node (SpecWalk).  The nodes of a *)
(* statement are named by the path of fields that leads to them, so that   *)
(* they are counted without following the order of the visit.              *)
(***************************************************************************)
NodeFields == {"left", "right", "func", "arg1", "arg2"}

NodePaths == {<<>>} \cup { <<a>> : a \in NodeFields } \cup { <<a, b>> : a, b \in NodeFields }

HasChild(node, field) ==
    CASE field \in {"left", "right"} -> node.type = "BinOp"
      [] field = "func"              -> node.type = "Call"
      [] field = "arg1"              -> node.type = "Call" /\ Len(node.args) >= 1
      [] field = "arg2"              -> node.type = "Call" /\ Len(node.args) >= 2

Child(node, field) ==
    CASE field = "left"  -> node.left
      [] field = "right" -> node.right
      [] field = "func"  -> node.func
      [] field = "arg1"  -> node.args[1]
      [] field = "arg2"  -> node.args[2]

RECURSIVE HasNodeAt(_, _)
HasNodeAt(node, path) ==
    path = <<>> \/ (HasChild(node, Head(path)) /\ HasNodeAt(Child(node, Head(path)), Tail(path)))

RECURSIVE NodeAt(_, _)
NodeAt(node, path) ==
    IF path = <<>> THEN node ELSE NodeAt(Child(node, Head(path)), Tail(path))

IsDivision(node) == node.type = "BinOp" /\ node.op = "Div"

NonZeroLiteral(node) == node.type = "Constant" /\ ~node.zero

\* The division nodes of statement e whose right operand is not a non-zero literal.
RiskyDivisions(e) ==
    { p \in NodePaths : /\ HasNodeAt(e, p)
                        /\ IsDivision(NodeAt(e, p))
                        /\ ~NonZeroLiteral(NodeAt(e, p).right) }

SingularityRisksAt(lineno) ==
    Cardinality({ k \in 1..Len(RISKS) : RISKS[k] = Risk(lineno, "Singularity Risk") })

\* C26: once the module has been visited, the Singularity Risk entries of
\* each statement are as many as its division nodes, nested ones included,
\* whose right operand is not a non-zero literal constant: one entry for
\* each such node and none for a division by a non-zero literal.
C26_OneRiskPerDivisionNode ==
    Walked =>
        \A k \in 1..Len(a_files[1].body) :
            SingularityRisksAt(k) = Cardinality(RiskyDivisions(a_files[1].body[k]))

\* n / (2 / n) followed by (n / n) / 2: two entries for the first statement,
\* one for the second, whose outer division is by the literal 2.
C26_Witness ==
    /\ Walked
    /\ a_files[1].body = << BinOp("Div", N_VAR, BinOp("Div", C_TWO, N_VAR)),
                            BinOp("Div", BinOp("Div", N_VAR, N_VAR), C_TWO) >>
    /\ SingularityRisksAt(1) = 2 /\ SingularityRisksAt(2) = 1


(***************************************************************************)
(* C27: the missing-return-type issue (SpecDefs).                          *)
(***************************************************************************)
ReturnHintReported(issues, k) ==
    \E j \in 1..Len(issues) :
        issues[j] = Issue(k, MissingReturnTypeHint(file.lines[k]))

\* Line k is a function definition without a return annotation that is not
\* named __init__.
LacksReturnHint(k) ==
    /\ IsFunctionDef(file.lines[k])
    /\ ~HasReturns(file.lines[k]) /\ DefName(file.lines[k]) # "__init__"

\* C27 (as claimed): for every function definition of a parsed file the
\* structural pass reports a missing-return-type issue if and only if the
\* function has no return annotation and is not named __init__, in the
\* checker of scripts/ and in the checker of tools/ alike.
C27_ReturnHintIssueInBothVariants ==
    (prog = "file" /\ file.kind = "regular" /\ file.name = "mod.py") =>
        \A k \in 1..Len(file.lines) :
            IsFunctionDef(file.lines[k]) =>
                /\ direct.called => (ReturnHintReported(direct.ast, k) <=> LacksReturnHint(k))
                /\ cq.called => (ReturnHintReported(cq.ast, k) <=> LacksReturnHint(k))

\* What the code does: the checker of scripts/ reports as claimed, the
\* checker of tools/ never reports a missing return type hint.
ReturnHintOnlyInScriptsVariant ==
    (prog = "file" /\ file.kind = "regular" /\ file.name = "mod.py") =>
        \A k \in 1..Len(file.lines) :
            IsFunctionDef(file.lines[k]) =>
                /\ direct.called => (ReturnHintReported(direct.ast, k) <=> LacksReturnHint(k))
                /\ cq.called => ~ReturnHintReported(cq.ast, k)

\* An unannotated function and __init__: the checker of scripts/ has
\* reported the return type of the first only, the checker of tools/ of none.
C27_Witness ==
    /\ prog = "file" /\ file.name = "mod.py"
    /\ file.lines = <<L_DEF, L_INIT>>
    /\ direct.called /\ cq.called
    /\ ReturnHintReported(direct.ast, 1) /\ ~ReturnHintReported(direct.ast, 2)
    /\ ~ReturnHintReported(cq.ast, 1) /\ ~ReturnHintReported(cq.ast, 2)
    /\ Len(cq.ast) = 2


(***************************************************************************)
(* C28: the compound test of the content signature (SpecFile).             *)
(***************************************************************************)
\* should_exclude_file has gone as far as _check_content_signature, which
\* has read the window of a file without the marker in it.
ContentDecidedWithoutMarker ==
    /\ prog = "file" /\ excl.called /\ excl.exc = NoExc
    /\ excl.calls = <<"filename", "path", "content">>
    /\ file.kind \in {"regular", "undecodable", "scriptlink"}
    /\ ~ContainsWithin(file.lines, _QUALITY_CHECK_SCRIPT_MARKER, WINDOW)

TableAndTitleInWindow ==
    /\ ContainsWithin(file.lines, T_TABLE, WINDOW)
    /\ ContainsWithin(file.lines, T_TITLE, WINDOW)

\* C28 (as claimed): when the marker is absent from the first 4096
\* characters, the content-signature check matches if and only if the
\* window holds both 'BANNED_PATTERNS = [' and 'Quality check script'; no
\* further token is required.
C28_TableAndTitleSuffice ==
    ContentDecidedWithoutMarker => (excl.ret <=> TableAndTitleInWindow)

\* What the code does: the two tokens are necessary, and the window must
\* also hold 'def should_exclude_file'.
TableTitleAndDefRequired ==
    ContentDecidedWithoutMarker =>
        (excl.ret <=> (TableAndTitleInWindow /\ ContainsWithin(file.lines, T_DEFEX, WINDOW)))

\* The table declaration and the title without the function header: the
\* signature check has not matched, while check_file, whose own test asks
\* for the two tokens only, has returned no issue.
C28_Witness ==
    /\ ContentDecidedWithoutMarker
    /\ file = [name |-> "mod.py", kind |-> "regular", lines |-> <<L_TABLE, L_TITLE>>]
    /\ ~excl.ret
    /\ cf.called /\ cf.ret = <<>>


(***************************************************************************)
(* C29: the strict flag and the exit code (SpecMatlab).                    *)
(***************************************************************************)
\* run_all_checks has returned self.results to main().
ReportReturned == prog = "matlab_quality_check" /\ pc \in {"report", "exited"}

\* C29: self.results never has passed true together with a non-empty issues
\* list, so for every report run_all_checks returns the exit code computed
\* with --strict equals the one computed without it, and the exit code of
\* the process is the one the other setting of the flag would have given.
C29_StrictNeverChangesExitCode ==
    prog = "matlab_quality_check" =>
        /\ ~(results.passed /\ results.issues # <<>>)
        /\ ReportReturned =>
              MatlabExitCode(results.passed, results.issues # <<>>, TRUE)
                  = MatlabExitCode(results.passed, results.issues # <<>>, FALSE)
        /\ pc = "exited" =>
              exit_code = MatlabExitCode(results.passed, results.issues # <<>>, ~strict)

\* A run without --strict whose static analysis found issues: the report
\* has issues and passed false, and the process has exited with 1.
C29_Witness ==
    /\ prog = "matlab_quality_check" /\ pc = "exited"
    /\ ~strict /\ results.issues # <<>> /\ ~results.passed
    /\ exit_code = 1


(***************************************************************************)
(* C30: the command loop of _run_matlab_script (SpecRunScript).            *)
(***************************************************************************)
InRunScript == prog = "matlab_quality_check" /\ pc = "run_matlab_quality_checks"

\* The command ran (or could not be started, or timed out) without exit code 0
\* and the loop went on.
CommandFailed(k) == cmd_outcome[k] = "rc_nonzero" \/ cmd_outcome[k] \in RunScriptContinue

\* The commands attempted so far are the first ones of the list, in order.
AttemptedInOrder ==
    /\ Len(attempted) <= Len(commands)
    /\ \A k \in 1..Len(attempted) : attempted[k] = k

\* Every command but the last attempted one has failed.
NoAttemptAfterReturn ==
    \A k \in 1..(Len(attempted) - 1) : CommandFailed(k)

\* A step attempts at most the next command of the list.
AttemptStep ==
    attempted' = attempted \/ attempted' = Append(attempted, Len(attempted) + 1)

\* A step that returns from _run_matlab_script returns the success result
\* at the first command that exits with 0, the static-analysis result after
\* three failed commands, or the error result.
ReturnStep ==
    (InRunScript /\ pc' = "got_results") =>
        \/ /\ matlab_results' = ScriptResult
           /\ attempted' # <<>>
           /\ cmd_outcome[Len(attempted')] = "rc0"
        \/ /\ matlab_results' = StaticResult(m_files)
           /\ attempted = <<1, 2, 3>>
           /\ \A k \in 1..Len(commands) : CommandFailed(k)
        \/ /\ matlab_results' = ErrorResult
           /\ attempted' # <<>>
           /\ ~CommandFailed(Len(attempted')) /\ cmd_outcome[Len(attempted')] # "rc0"

\* C30: the three commands are attempted in the order of the list, at most
\* once each; the first command that exits with 0 ends the loop with the
\* success result and no later command is attempted; static analysis is
\* started only after all three commands have failed; and the procedure
\* always returns, with a success, a static-analysis or an error result.
C30_CommandsInOrderThenStaticAndTerminates ==
    /\ [](prog = "matlab_quality_check" => (AttemptedInOrder /\ NoAttemptAfterReturn))
    /\ [][AttemptStep /\ ReturnStep]_vars
    /\ (InRunScript ~>
          (pc = "got_results"
             /\ matlab_results \in {ScriptResult, StaticResult(m_files), ErrorResult}))

\* The first command is not installed, the second exits with 0: two
\* commands have been attempted, the third has not, and the success result
\* has been returned.
C30_Witness ==
    /\ prog = "matlab_quality_check" /\ pc = "got_results"
    /\ cmd_outcome[1] = "FileNotFoundError" /\ cmd_outcome[2] = "rc0"
    /\ attempted = <<1, 2>>
    /\ matlab_results = ScriptResult

====
